---- MODULE Spec2Model ----
(***************************************************************************)
(* A model of invoiceAI's document-to-candidate pipeline:                  *)
(*   Extractor.process_pdf      (src/extract/extract.py)                   *)
(*   InvoiceParser.parse        (src/parse/ai_parse.py)                    *)
(*   InvoiceProcessor.process   (src/invoice_processor.py)                 *)
(* and of its two threaded components, each with a specification of its    *)
(* own (SheetsSpec, TrainSpec) in which the rest of the state stands still: *)
(*   SheetSync.upsert_records   (src/sheets/sheets.py)                     *)
(*   TrainingEngine             (src/training/training_engine.py)          *)
(*                                                                         *)
(* Conventions.  A Python str is kept in the state as a TLA+ string and    *)
(* is turned into a sequence of one-character strings (Chars) wherever the *)
(* code looks inside it.  A float confidence or threshold is an integer    *)
(* number of hundredths (0.35 is 35).  An Optional value is a sequence of  *)
(* length 0 (None) or 1.  A word's bounding box is stood for by the word's *)
(* position in the page's word list, so a candidate's bbox is the set of   *)
(* words whose boxes the code unions (empty: None).                        *)
(***************************************************************************)
EXTENDS Integers, Sequences, FiniteSets, TLC

VARIABLES
    pc,               \* position in the pipeline
    path_exists,      \* pdf_path.exists()
    force_ocr,        \* the force_ocr argument of process_pdf
    ocr_threshold,    \* Extractor.ocr_threshold, in hundredths
    doc,              \* the document on disk: a sequence of raw pages
    pages,            \* process_pdf's local `pages`
    ocr_used,         \* process_pdf's local `ocr_used`
    exc,              \* the exception that reached the caller ("" if none)
    invoked,          \* the tiers invoked so far, in order
    outcome,          \* per tier: "not_run", "failed" (no backend, or a fault), "ok"
    page_count,       \* per tier: Optional length of the list the tier returned
    direct_read,      \* the page records the Direct tier built
    pages_origin,     \* the tier whose return value `pages` holds
    candidates,       \* the field candidates of the latest Generator run
    known_entities,   \* known_entities["vendors"] of the parser that parsed, in mapping order
    parse_result,     \* Optional ParseResult
    override_vendor_code, \* Optional[str] argument of InvoiceProcessor.process
    record,           \* Optional InvoiceRecord
    \* SheetSync (src/sheets/sheets.py), one upsert_records call per thread
    sheet_pc,         \* per thread: where its upsert_records call is
    sheet_self,       \* per thread: the SheetSync instance it calls
    sheet_records,    \* per thread: the `records` argument, as a list of uids
    sheet_locals,     \* per thread: the client in hand, loop index, existing_uids, new_rows
    retry,            \* per thread: the locals and history of its _with_retry call
    sheet_result,     \* per thread: Optional return value, or "raised"
    _lock,            \* SheetSync._lock: Optional holder
    _client,          \* per instance: Optional client (numbered as constructed)
    _sheet_cache,     \* per instance: spreadsheet_name in self._sheet_cache
    authorize_calls,  \* clients constructed by gspread.authorize
    worksheet,        \* the remote worksheet: uids of its rows, header row present
    sheets_env,       \* gspread/Credentials imported, credentials file exists
    \* TrainingEngine (src/training/training_engine.py)
    train_pc,         \* per caller thread: where its record_feedback call is
    calls_made,       \* calls on the engine (record_feedback, stop) started so far
    feedback_file,    \* the lines of feedback.jsonl: per line, the retrain flag it was written with
    _training_thread, \* TrainingEngine._training_thread: Optional thread number
    _stop_event,      \* TrainingEngine._stop_event: whether the Event is set
    thread_ref,       \* per caller thread: the Thread its statement holds (read at line 56, 61, 108 or 109, made at line 60)
    in_method,        \* per caller thread: the method of the engine its call is in, "_schedule_retrain" or "stop"
    waiting,          \* per caller thread: the method of Thread that called _wait_for_tstate_lock, "is_alive" or "join"
    lock_ref,         \* per caller thread: the local lock of _wait_for_tstate_lock
    stop_lock,        \* per caller thread: the local lock of _stop
    error,            \* per caller thread: the exception being handled, or the one that left its last call
    threads,          \* the Thread objects created, numbered as constructed
    runs,             \* the OS threads started for them: the Thread, the position, the lines read
    training_log,     \* the feedback counts logged by finished runs, in order
    process           \* "running", or "exited" once the process of the engine ended

vars == <<pc, path_exists, force_ocr, ocr_threshold, doc, pages, ocr_used, exc,
          invoked, outcome, page_count, direct_read, pages_origin, candidates,
          known_entities, parse_result,
                   override_vendor_code, record,
          sheet_pc, sheet_self, sheet_records, sheet_locals, retry, sheet_result,
          _lock, _client, _sheet_cache, authorize_calls, worksheet, sheets_env,
          train_pc, calls_made, feedback_file, _training_thread, _stop_event,
          thread_ref, in_method, waiting, lock_ref, stop_lock, error,
          threads, runs, training_log, process>>

\* The state of the pipeline, of SheetSync and of the TrainingEngine.
extractVars == <<pc, path_exists, force_ocr, ocr_threshold, doc, pages, ocr_used, exc,
                 invoked, outcome, page_count, direct_read, pages_origin, candidates,
                 known_entities, parse_result, override_vendor_code, record>>
sheetVars == <<sheet_pc, sheet_self, sheet_records, sheet_locals, retry, sheet_result,
               _lock, _client, _sheet_cache, authorize_calls, worksheet, sheets_env>>
trainVars == <<train_pc, calls_made, feedback_file, _training_thread,
               _stop_event, thread_ref, in_method, waiting, lock_ref, stop_lock, error,
               threads, runs, training_log, process>>

\* ------------------------------------------------------------------------
\* Python str and list operations
\* ------------------------------------------------------------------------

Chars(str) == [i \in 1..Len(str) |-> SubSeq(str, i, i)]

\* "".join(cs), halving so that the recursion stays shallow.
RECURSIVE Str(_)
Str(cs) ==
    IF Len(cs) = 0 THEN ""
    ELSE IF Len(cs) = 1 THEN cs[1]
    ELSE Str(SubSeq(cs, 1, Len(cs) \div 2)) \o Str(SubSeq(cs, Len(cs) \div 2 + 1, Len(cs)))

Range(q) == {q[i] : i \in DOMAIN q}

Min(a, b) == IF a < b THEN a ELSE b
Least(S) == CHOOSE x \in S : \A y \in S : x <= y
Max(a, b) == IF a > b THEN a ELSE b

RECURSIVE Sum(_)
Sum(q) == IF Len(q) = 0 THEN 0 ELSE Head(q) + Sum(Tail(q))

RECURSIVE Flatten(_)
Flatten(qs) == IF Len(qs) = 0 THEN <<>> ELSE Head(qs) \o Flatten(Tail(qs))

\* The characters of this model are the characters a TLA+ string can hold:
\* U+0001 to U+00FF without the backquote, and the characters of the Basic
\* Multilingual Plane whose code point ends in a byte of 0x80 or more.  Each
\* table below lists the characters among these for which Python 3.11
\* (Unicode 14.0.0) answers as the comment says.

\* The characters of the strings in rows.
CharsOf(rows) == UNION {{rows[r][i] : i \in DOMAIN rows[r]} : r \in DOMAIN rows}

LowerAlpha == Chars("abcdefghijklmnopqrstuvwxyz")
UpperAlpha == Chars("ABCDEFGHIJKLMNOPQRSTUVWXYZ")

\* [0-9] of the patterns.
Digits == {"0", "1", "2", "3", "4", "5", "6", "7", "8", "9"}

\* str.isdigit()
DigitChars ==
    CharsOf(<<Chars("0123456789²³¹۰۱۲۳۴۵۶۷۸۹߀߁߂߃߄߅߆߇߈߉০১২৩৪৫৬৭৮৯૦૧૨૩૪૫૬૭૮૯௦௧௨௩௪௫௬௭௮௯೦"),
             Chars("೧೨೩೪೫೬೭೮೯෦෧෨෩෪෫෬෭෮෯໐໑໒໓໔໕໖໗໘໙႐႑႒႓႔႕႖႗႘႙០១២៣៤៥៦៧៨៩᧐᧑᧒᧓᧔᧕᧖᧗᧘᧙᧚᪀᪁᪂᪃"),
             Chars("᪄᪅᪆᪇᪈᪉᪐᪑᪒᪓᪔᪕᪖᪗᪘᪙᮰᮱᮲᮳᮴᮵᮶᮷᮸᮹₀₁₂₃₄₅₆₇₈₉⒈⒉⒊⒋⒌⒍⒎⒏⒐⓪⓵⓶⓷⓸⓹⓺⓻⓼⓽⓿➀➁➂➃➄➅➆➇"),
             Chars("➈➊➋➌➍➎➏➐➑➒꣐꣑꣒꣓꣔꣕꣖꣗꣘꣙꧐꧑꧒꧓꧔꧕꧖꧗꧘꧙꧰꧱꧲꧳꧴꧵꧶꧷꧸꧹꯰꯱꯲꯳꯴꯵꯶꯷꯸꯹")>>)

\* \d of a str pattern: str.isdecimal()
DecimalChars ==
    CharsOf(<<Chars("0123456789۰۱۲۳۴۵۶۷۸۹߀߁߂߃߄߅߆߇߈߉০১২৩৪৫৬৭৮৯૦૧૨૩૪૫૬૭૮૯௦௧௨௩௪௫௬௭௮௯೦೧೨೩"),
             Chars("೪೫೬೭೮೯෦෧෨෩෪෫෬෭෮෯໐໑໒໓໔໕໖໗໘໙႐႑႒႓႔႕႖႗႘႙០១២៣៤៥៦៧៨៩᧐᧑᧒᧓᧔᧕᧖᧗᧘᧙᪀᪁᪂᪃᪄᪅᪆᪇"),
             Chars("᪈᪉᪐᪑᪒᪓᪔᪕᪖᪗᪘᪙᮰᮱᮲᮳᮴᮵᮶᮷᮸᮹꣐꣑꣒꣓꣔꣕꣖꣗꣘꣙꧐꧑꧒꧓꧔꧕꧖꧗꧘꧙꧰꧱꧲꧳꧴꧵꧶꧷꧸꧹꯰꯱꯲꯳꯴꯵꯶꯷꯸꯹")>>)

\* str.isspace(): what strip() and split() remove and \s matches.
Whitespace == {"\t", "\n", "", "\f", "\r", "", "", "", "", " ", "", " ", " "}

\* The line boundaries of str.splitlines().
LineBreaks == {"\n", "", "\f", "\r", "", "", "", ""}

\* \w of a str pattern: str.isalnum() or "_".
WordChars ==
    CharsOf(<<Chars("0123456789ABCDEFGHIJKLMNOPQRSTUVWXYZ_abcdefghijklmnopqrstuvwxyzª"),
             Chars("²³µ¹º¼½¾ÀÁÂÃÄÅÆÇÈÉÊËÌÍÎÏÐÑÒÓÔÕÖØÙÚÛÜÝÞßàáâãäåæçèéêëìíîïðñòóôõöøù"),
             Chars("úûüýþÿƀƁƂƃƄƅƆƇƈƉƊƋƌƍƎƏƐƑƒƓƔƕƖƗƘƙƚƛƜƝƞƟƠơƢƣƤƥƦƧƨƩƪƫƬƭƮƯưƱƲƳƴƵƶƷƸƹ"),
             Chars("ƺƻƼƽƾƿǀǁǂǃǄǅǆǇǈǉǊǋǌǍǎǏǐǑǒǓǔǕǖǗǘǙǚǛǜǝǞǟǠǡǢǣǤǥǦǧǨǩǪǫǬǭǮǯǰǱǲǳǴǵǶǷǸǹ"),
             Chars("ǺǻǼǽǾǿʀʁʂʃʄʅʆʇʈʉʊʋʌʍʎʏʐʑʒʓʔʕʖʗʘʙʚʛʜʝʞʟʠʡʢʣʤʥʦʧʨʩʪʫʬʭʮʯʰʱʲʳʴʵʶʷʸʹ"),
             Chars("ʺʻʼʽʾʿˀˁˆˇˈˉˊˋˌˍˎˏːˑˠˡˢˣˤˬˮΆΈΉΊΌΎΏΐΑΒΓΔΕΖΗΘΙΚΛΜΝΞΟΠΡΣΤΥΦΧΨΩΪΫάέή"),
             Chars("ίΰαβγδεζηθικλμνξοπρςστυφχψωϊϋόύώϏϐϑϒϓϔϕϖϗϘϙϚϛϜϝϞϟϠϡϢϣϤϥϦϧϨϩϪϫϬϭϮ"),
             Chars("ϯϰϱϲϳϴϵϷϸϹϺϻϼϽϾϿҀҁҊҋҌҍҎҏҐґҒғҔҕҖҗҘҙҚқҜҝҞҟҠҡҢңҤҥҦҧҨҩҪҫҬҭҮүҰұҲҳҴҵҶҷ"),
             Chars("ҸҹҺһҼҽҾҿӀӁӂӃӄӅӆӇӈӉӊӋӌӍӎӏӐӑӒӓӔӕӖӗӘәӚӛӜӝӞӟӠӡӢӣӤӥӦӧӨөӪӫӬӭӮӯӰӱӲӳӴӵӶӷ"),
             Chars("ӸӹӺӻӼӽӾӿրցւփքօֆևֈאבגדהוזחטיךכלםמןנסעףפץצקרשתׯװױײڀځڂڃڄڅچڇڈډڊڋڌڍڎڏ"),
             Chars("ڐڑڒړڔڕږڗژڙښڛڜڝڞڟڠڡڢڣڤڥڦڧڨکڪګڬڭڮگڰڱڲڳڴڵڶڷڸڹںڻڼڽھڿۀہۂۃۄۅۆۇۈۉۊۋیۍێۏ"),
             Chars("ېۑےۓەۥۦۮۯ۰۱۲۳۴۵۶۷۸۹ۺۻۼۿހށނރބޅކއވމފދތލގޏސޑޒޓޔޕޖޗޘޙޚޛޜޝޞޟޠޡޢޣޤޥޱ߀߁"),
             Chars("߂߃߄߅߆߇߈߉ߊߋߌߍߎߏߐߑߒߓߔߕߖߗߘߙߚߛߜߝߞߟߠߡߢߣߤߥߦߧߨߩߪߴߵߺࢀࢁࢂࢃࢄࢅࢆࢇࢉࢊࢋࢌࢍࢎࢠࢡࢢࢣࢤࢥ"),
             Chars("ࢦࢧࢨࢩࢪࢫࢬࢭࢮࢯࢰࢱࢲࢳࢴࢵࢶࢷࢸࢹࢺࢻࢼࢽࢾࢿࣀࣁࣂࣃࣄࣅࣆࣇࣈࣉঀঅআইঈউঊঋঌএঐওঔকখগঘঙচছজঝঞটঠডঢণ"),
             Chars("তথদধনপফবভমযরলশষসহঽৎড়ঢ়য়ৠৡ০১২৩৪৫৬৭৮৯ৰৱ৴৵৶৷৸৹ৼઅઆઇઈઉઊઋઌઍએઐઑઓઔકખગઘઙચછ"),
             Chars("જઝઞટઠડઢણતથદધનપફબભમયરલળવશષસહઽૐૠૡ૦૧૨૩૪૫૬૭૮૯ૹஃஅஆஇஈஉஊஎஏஐஒஓஔகஙசஜஞடணதந"),
             Chars("னபமயரறலளழவஶஷஸஹௐ௦௧௨௩௪௫௬௭௮௯௰௱௲ಀಅಆಇಈಉಊಋಌಎಏಐಒಓಔಕಖಗಘಙಚಛಜಝಞಟಠಡಢಣತಥದಧನಪ"),
             Chars("ಫಬಭಮಯರಱಲಳವಶಷಸಹಽೝೞೠೡ೦೧೨೩೪೫೬೭೮೯ೱೲඅආඇඈඉඊඋඌඍඎඏඐඑඒඓඔඕඖකඛගඝඞඟචඡජඣඤඥඦටඨ"),
             Chars("ඩඪණඬතථදධනඳපඵබභමඹයරලවශෂසහළෆ෦෧෨෩෪෫෬෭෮෯ກຂຄຆງຈຉຊຌຍຎຏຐຑຒຓດຕຖທຘນບປຜຝພຟ"),
             Chars("ຠມຢຣລວຨຩສຫຬອຮຯະາຳຽເແໂໃໄໆ໐໑໒໓໔໕໖໗໘໙ໜໝໞໟྈྉྊྋྌႀႁႎ႐႑႒႓႔႕႖႗႘႙ႠႡႢႣႤႥႦႧ"),
             Chars("ႨႩႪႫႬႭႮႯႰႱႲႳႴႵႶႷႸႹႺႻႼႽႾႿჀჁჂჃჄჅჇჍაბგდევზთიკლმნოპჟრსტუფქღყშჩცძწჭხჯ"),
             Chars("ჰჱჲჳჴჵჶჷჸჹჺჼჽჾჿᆀᆁᆂᆃᆄᆅᆆᆇᆈᆉᆊᆋᆌᆍᆎᆏᆐᆑᆒᆓᆔᆕᆖᆗᆘᆙᆚᆛᆜᆝᆞᆟᆠᆡᆢᆣᆤᆥᆦᆧᆨᆩᆪᆫᆬᆭᆮᆯᆰ"),
             Chars("ᆱᆲᆳᆴᆵᆶᆷᆸᆹᆺᆻᆼᆽᆾᆿᇀᇁᇂᇃᇄᇅᇆᇇᇈᇉᇊᇋᇌᇍᇎᇏᇐᇑᇒᇓᇔᇕᇖᇗᇘᇙᇚᇛᇜᇝᇞᇟᇠᇡᇢᇣᇤᇥᇦᇧᇨᇩᇪᇫᇬᇭᇮᇯᇰ"),
             Chars("ᇱᇲᇳᇴᇵᇶᇷᇸᇹᇺᇻᇼᇽᇾᇿኀኁኂኃኄኅኆኇኈኊኋኌኍነኑኒናኔንኖኗኘኙኚኛኜኝኞኟአኡኢኣኤእኦኧከኩኪካኬክኮኯኰኲኳኴ"),
             Chars("ኵኸኹኺኻኼኽኾዀዂዃዄዅወዉዊዋዌውዎዏዐዑዒዓዔዕዖዘዙዚዛዜዝዞዟዠዡዢዣዤዥዦዧየዩዪያዬይዮዯደዱዲዳዴድዶዷዸዹዺዻ"),
             Chars("ዼዽዾዿᎀᎁᎂᎃᎄᎅᎆᎇᎈᎉᎊᎋᎌᎍᎎᎏᎠᎡᎢᎣᎤᎥᎦᎧᎨᎩᎪᎫᎬᎭᎮᎯᎰᎱᎲᎳᎴᎵᎶᎷᎸᎹᎺᎻᎼᎽᎾᎿᏀᏁᏂᏃᏄᏅᏆᏇᏈᏉᏊᏋ"),
             Chars("ᏌᏍᏎᏏᏐᏑᏒᏓᏔᏕᏖᏗᏘᏙᏚᏛᏜᏝᏞᏟᏠᏡᏢᏣᏤᏥᏦᏧᏨᏩᏪᏫᏬᏭᏮᏯᏰᏱᏲᏳᏴᏵᏸᏹᏺᏻᏼᏽᒀᒁᒂᒃᒄᒅᒆᒇᒈᒉᒊᒋᒌᒍᒎᒏ"),
             Chars("ᒐᒑᒒᒓᒔᒕᒖᒗᒘᒙᒚᒛᒜᒝᒞᒟᒠᒡᒢᒣᒤᒥᒦᒧᒨᒩᒪᒫᒬᒭᒮᒯᒰᒱᒲᒳᒴᒵᒶᒷᒸᒹᒺᒻᒼᒽᒾᒿᓀᓁᓂᓃᓄᓅᓆᓇᓈᓉᓊᓋᓌᓍᓎᓏ"),
             Chars("ᓐᓑᓒᓓᓔᓕᓖᓗᓘᓙᓚᓛᓜᓝᓞᓟᓠᓡᓢᓣᓤᓥᓦᓧᓨᓩᓪᓫᓬᓭᓮᓯᓰᓱᓲᓳᓴᓵᓶᓷᓸᓹᓺᓻᓼᓽᓾᓿᖀᖁᖂᖃᖄᖅᖆᖇᖈᖉᖊᖋᖌᖍᖎᖏ"),
             Chars("ᖐᖑᖒᖓᖔᖕᖖᖗᖘᖙᖚᖛᖜᖝᖞᖟᖠᖡᖢᖣᖤᖥᖦᖧᖨᖩᖪᖫᖬᖭᖮᖯᖰᖱᖲᖳᖴᖵᖶᖷᖸᖹᖺᖻᖼᖽᖾᖿᗀᗁᗂᗃᗄᗅᗆᗇᗈᗉᗊᗋᗌᗍᗎᗏ"),
             Chars("ᗐᗑᗒᗓᗔᗕᗖᗗᗘᗙᗚᗛᗜᗝᗞᗟᗠᗡᗢᗣᗤᗥᗦᗧᗨᗩᗪᗫᗬᗭᗮᗯᗰᗱᗲᗳᗴᗵᗶᗷᗸᗹᗺᗻᗼᗽᗾᗿᚁᚂᚃᚄᚅᚆᚇᚈᚉᚊᚋᚌᚍᚎᚏᚐ"),
             Chars("ᚑᚒᚓᚔᚕᚖᚗᚘᚙᚚᚠᚡᚢᚣᚤᚥᚦᚧᚨᚩᚪᚫᚬᚭᚮᚯᚰᚱᚲᚳᚴᚵᚶᚷᚸᚹᚺᚻᚼᚽᚾᚿᛀᛁᛂᛃᛄᛅᛆᛇᛈᛉᛊᛋᛌᛍᛎᛏᛐᛑᛒᛓᛔᛕ"),
             Chars("ᛖᛗᛘᛙᛚᛛᛜᛝᛞᛟᛠᛡᛢᛣᛤᛥᛦᛧᛨᛩᛪᛮᛯᛰᛱᛲᛳᛴᛵᛶᛷᛸកខគឃងចឆជឈញដឋឌឍណតថទធនបផពភមយរលវឝឞស"),
             Chars("ហឡអឣឤឥឦឧឨឩឪឫឬឭឮឯឰឱឲឳៗៜ០១២៣៤៥៦៧៨៩៰៱៲៳៴៵៶៷៸៹ᢀᢁᢂᢃᢄᢇᢈᢉᢊᢋᢌᢍᢎᢏᢐᢑᢒᢓᢔᢕᢖᢗ"),
             Chars("ᢘᢙᢚᢛᢜᢝᢞᢟᢠᢡᢢᢣᢤᢥᢦᢧᢨᢪᢰᢱᢲᢳᢴᢵᢶᢷᢸᢹᢺᢻᢼᢽᢾᢿᣀᣁᣂᣃᣄᣅᣆᣇᣈᣉᣊᣋᣌᣍᣎᣏᣐᣑᣒᣓᣔᣕᣖᣗᣘᣙᣚᣛᣜᣝ"),
             Chars("ᣞᣟᣠᣡᣢᣣᣤᣥᣦᣧᣨᣩᣪᣫᣬᣭᣮᣯᣰᣱᣲᣳᣴᣵᦀᦁᦂᦃᦄᦅᦆᦇᦈᦉᦊᦋᦌᦍᦎᦏᦐᦑᦒᦓᦔᦕᦖᦗᦘᦙᦚᦛᦜᦝᦞᦟᦠᦡᦢᦣᦤᦥᦦᦧ"),
             Chars("ᦨᦩᦪᦫᦰᦱᦲᦳᦴᦵᦶᦷᦸᦹᦺᦻᦼᦽᦾᦿᧀᧁᧂᧃᧄᧅᧆᧇᧈᧉ᧐᧑᧒᧓᧔᧕᧖᧗᧘᧙᧚᪀᪁᪂᪃᪄᪅᪆᪇᪈᪉᪐᪑᪒᪓᪔᪕᪖᪗᪘᪙ᪧᮃᮄ"),
             Chars("ᮅᮆᮇᮈᮉᮊᮋᮌᮍᮎᮏᮐᮑᮒᮓᮔᮕᮖᮗᮘᮙᮚᮛᮜᮝᮞᮟᮠᮮᮯ᮰᮱᮲᮳᮴᮵᮶᮷᮸᮹ᮺᮻᮼᮽᮾᮿᯀᯁᯂᯃᯄᯅᯆᯇᯈᯉᯊᯋᯌᯍᯎᯏᯐᯑ"),
             Chars("ᯒᯓᯔᯕᯖᯗᯘᯙᯚᯛᯜᯝᯞᯟᯠᯡᯢᯣᯤᯥᲀᲁᲂᲃᲄᲅᲆᲇᲈᲐᲑᲒᲓᲔᲕᲖᲗᲘᲙᲚᲛᲜᲝᲞᲟᲠᲡᲢᲣᲤᲥᲦᲧᲨᲩᲪᲫᲬᲭᲮᲯᲰᲱᲲ"),
             Chars("ᲳᲴᲵᲶᲷᲸᲹᲺᲽᲾᲿᳩᳪᳫᳬᳮᳯᳰᳱᳲᳳᳵᳶᳺᶀᶁᶂᶃᶄᶅᶆᶇᶈᶉᶊᶋᶌᶍᶎᶏᶐᶑᶒᶓᶔᶕᶖᶗᶘᶙᶚᶛᶜᶝᶞᶟᶠᶡᶢᶣᶤᶥᶦᶧ"),
             Chars("ᶨᶩᶪᶫᶬᶭᶮᶯᶰᶱᶲᶳᶴᶵᶶᶷᶸᶹᶺᶻᶼᶽᶾᶿẀẁẂẃẄẅẆẇẈẉẊẋẌẍẎẏẐẑẒẓẔẕẖẗẘẙẚẛẜẝẞẟẠạẢảẤấẦầ"),
             Chars("ẨẩẪẫẬậẮắẰằẲẳẴẵẶặẸẹẺẻẼẽẾếỀềỂểỄễỆệỈỉỊịỌọỎỏỐốỒồỔổỖỗỘộỚớỜờỞởỠỡỢợỤụỦủ"),
             Chars("ỨứỪừỬửỮữỰựỲỳỴỵỶỷỸỹỺỻỼỽỾỿᾀᾁᾂᾃᾄᾅᾆᾇᾈᾉᾊᾋᾌᾍᾎᾏᾐᾑᾒᾓᾔᾕᾖᾗᾘᾙᾚᾛᾜᾝᾞᾟᾠᾡᾢᾣᾤᾥᾦᾧ"),
             Chars("ᾨᾩᾪᾫᾬᾭᾮᾯᾰᾱᾲᾳᾴᾶᾷᾸᾹᾺΆᾼιῂῃῄῆῇῈΈῊΉῌῐῑῒΐῖῗῘῙῚΊῠῡῢΰῤῥῦῧῨῩῪΎῬῲῳῴῶῷῸΌῺΏῼ"),
             Chars("₀₁₂₃₄₅₆₇₈₉ₐₑₒₓₔₕₖₗₘₙₚₛₜↀↁↂↃↄↅↆↇↈ↉⒀⒁⒂⒃⒄⒅⒆⒇⒈⒉⒊⒋⒌⒍⒎⒏⒐⒑⒒⒓⒔⒕⒖⒗⒘⒙⒚⒛⓪⓫⓬"),
             Chars("⓭⓮⓯⓰⓱⓲⓳⓴⓵⓶⓷⓸⓹⓺⓻⓼⓽⓾⓿➀➁➂➃➄➅➆➇➈➉➊➋➌➍➎➏➐➑➒➓ⲀⲁⲂⲃⲄⲅⲆⲇⲈⲉⲊⲋⲌⲍⲎⲏⲐⲑⲒⲓⲔⲕⲖⲗⲘ"),
             Chars("ⲙⲚⲛⲜⲝⲞⲟⲠⲡⲢⲣⲤⲥⲦⲧⲨⲩⲪⲫⲬⲭⲮⲯⲰⲱⲲⲳⲴⲵⲶⲷⲸⲹⲺⲻⲼⲽⲾⲿⳀⳁⳂⳃⳄⳅⳆⳇⳈⳉⳊⳋⳌⳍⳎⳏⳐⳑⳒⳓⳔⳕⳖⳗⳘ"),
             Chars("ⳙⳚⳛⳜⳝⳞⳟⳠⳡⳢⳣⳤⳫⳬⳭⳮⳲⳳ⳽ⶀⶁⶂⶃⶄⶅⶆⶇⶈⶉⶊⶋⶌⶍⶎⶏⶐⶑⶒⶓⶔⶕⶖⶠⶡⶢⶣⶤⶥⶦⶨⶩⶪⶫⶬⶭⶮⶰⶱⶲⶳⶴⶵⶶⶸ"),
             Chars("ⶹⶺⶻⶼⶽⶾⷀⷁⷂⷃⷄⷅⷆⷈⷉⷊⷋⷌⷍⷎⷐⷑⷒⷓⷔⷕⷖⷘⷙⷚⷛⷜⷝⷞむめもゃやゅゆょよらりるれろゎわゐゑをんゔゕゖゝゞゟァアィイ"),
             Chars("ゥウェエォオカガキギクグケゲコゴサザシジスズセゼソゾタダチヂッツヅテデトドナニヌネノハバパヒビピフブプヘベペホボポマミムメモャヤ"),
             Chars("ュユョヨラリルレロヮワヰヱヲンヴヵヶヷヸヹヺーヽヾヿㆀㆁㆂㆃㆄㆅㆆㆇㆈㆉㆊㆋㆌㆍㆎ㆒㆓㆔㆕ㆠㆡㆢㆣㆤㆥㆦㆧㆨㆩㆪㆫㆬㆭㆮㆯㆰㆱㆲ"),
             Chars("ㆳㆴㆵㆶㆷㆸㆹㆺㆻㆼㆽㆾㆿㇰㇱㇲㇳㇴㇵㇶㇷㇸㇹㇺㇻㇼㇽㇾㇿ㊀㊁㊂㊃㊄㊅㊆㊇㊈㊉㊱㊲㊳㊴㊵㊶㊷㊸㊹㊺㊻㊼㊽㊾㊿㒀㒁㒂㒃㒄㒅㒆㒇㒈㒉"),
             Chars("㒊㒋㒌㒍㒎㒏㒐㒑㒒㒓㒔㒕㒖㒗㒘㒙㒚㒛㒜㒝㒞㒟㒠㒡㒢㒣㒤㒥㒦㒧㒨㒩㒪㒫㒬㒭㒮㒯㒰㒱㒲㒳㒴㒵㒶㒷㒸㒹㒺㒻㒼㒽㒾㒿㓀㓁㓂㓃㓄㓅㓆㓇㓈㓉"),
             Chars("㓊㓋㓌㓍㓎㓏㓐㓑㓒㓓㓔㓕㓖㓗㓘㓙㓚㓛㓜㓝㓞㓟㓠㓡㓢㓣㓤㓥㓦㓧㓨㓩㓪㓫㓬㓭㓮㓯㓰㓱㓲㓳㓴㓵㓶㓷㓸㓹㓺㓻㓼㓽㓾㓿㖀㖁㖂㖃㖄㖅㖆㖇㖈㖉"),
             Chars("㖊㖋㖌㖍㖎㖏㖐㖑㖒㖓㖔㖕㖖㖗㖘㖙㖚㖛㖜㖝㖞㖟㖠㖡㖢㖣㖤㖥㖦㖧㖨㖩㖪㖫㖬㖭㖮㖯㖰㖱㖲㖳㖴㖵㖶㖷㖸㖹㖺㖻㖼㖽㖾㖿㗀㗁㗂㗃㗄㗅㗆㗇㗈㗉"),
             Chars("㗊㗋㗌㗍㗎㗏㗐㗑㗒㗓㗔㗕㗖㗗㗘㗙㗚㗛㗜㗝㗞㗟㗠㗡㗢㗣㗤㗥㗦㗧㗨㗩㗪㗫㗬㗭㗮㗯㗰㗱㗲㗳㗴㗵㗶㗷㗸㗹㗺㗻㗼㗽㗾㗿㚀㚁㚂㚃㚄㚅㚆㚇㚈㚉"),
             Chars("㚊㚋㚌㚍㚎㚏㚐㚑㚒㚓㚔㚕㚖㚗㚘㚙㚚㚛㚜㚝㚞㚟㚠㚡㚢㚣㚤㚥㚦㚧㚨㚩㚪㚫㚬㚭㚮㚯㚰㚱㚲㚳㚴㚵㚶㚷㚸㚹㚺㚻㚼㚽㚾㚿㛀㛁㛂㛃㛄㛅㛆㛇㛈㛉"),
             Chars("㛊㛋㛌㛍㛎㛏㛐㛑㛒㛓㛔㛕㛖㛗㛘㛙㛚㛛㛜㛝㛞㛟㛠㛡㛢㛣㛤㛥㛦㛧㛨㛩㛪㛫㛬㛭㛮㛯㛰㛱㛲㛳㛴㛵㛶㛷㛸㛹㛺㛻㛼㛽㛾㛿㞀㞁㞂㞃㞄㞅㞆㞇㞈㞉"),
             Chars("㞊㞋㞌㞍㞎㞏㞐㞑㞒㞓㞔㞕㞖㞗㞘㞙㞚㞛㞜㞝㞞㞟㞠㞡㞢㞣㞤㞥㞦㞧㞨㞩㞪㞫㞬㞭㞮㞯㞰㞱㞲㞳㞴㞵㞶㞷㞸㞹㞺㞻㞼㞽㞾㞿㟀㟁㟂㟃㟄㟅㟆㟇㟈㟉"),
             Chars("㟊㟋㟌㟍㟎㟏㟐㟑㟒㟓㟔㟕㟖㟗㟘㟙㟚㟛㟜㟝㟞㟟㟠㟡㟢㟣㟤㟥㟦㟧㟨㟩㟪㟫㟬㟭㟮㟯㟰㟱㟲㟳㟴㟵㟶㟷㟸㟹㟺㟻㟼㟽㟾㟿㢀㢁㢂㢃㢄㢅㢆㢇㢈㢉"),
             Chars("㢊㢋㢌㢍㢎㢏㢐㢑㢒㢓㢔㢕㢖㢗㢘㢙㢚㢛㢜㢝㢞㢟㢠㢡㢢㢣㢤㢥㢦㢧㢨㢩㢪㢫㢬㢭㢮㢯㢰㢱㢲㢳㢴㢵㢶㢷㢸㢹㢺㢻㢼㢽㢾㢿㣀㣁㣂㣃㣄㣅㣆㣇㣈㣉"),
             Chars("㣊㣋㣌㣍㣎㣏㣐㣑㣒㣓㣔㣕㣖㣗㣘㣙㣚㣛㣜㣝㣞㣟㣠㣡㣢㣣㣤㣥㣦㣧㣨㣩㣪㣫㣬㣭㣮㣯㣰㣱㣲㣳㣴㣵㣶㣷㣸㣹㣺㣻㣼㣽㣾㣿㦀㦁㦂㦃㦄㦅㦆㦇㦈㦉"),
             Chars("㦊㦋㦌㦍㦎㦏㦐㦑㦒㦓㦔㦕㦖㦗㦘㦙㦚㦛㦜㦝㦞㦟㦠㦡㦢㦣㦤㦥㦦㦧㦨㦩㦪㦫㦬㦭㦮㦯㦰㦱㦲㦳㦴㦵㦶㦷㦸㦹㦺㦻㦼㦽㦾㦿㧀㧁㧂㧃㧄㧅㧆㧇㧈㧉"),
             Chars("㧊㧋㧌㧍㧎㧏㧐㧑㧒㧓㧔㧕㧖㧗㧘㧙㧚㧛㧜㧝㧞㧟㧠㧡㧢㧣㧤㧥㧦㧧㧨㧩㧪㧫㧬㧭㧮㧯㧰㧱㧲㧳㧴㧵㧶㧷㧸㧹㧺㧻㧼㧽㧾㧿㪀㪁㪂㪃㪄㪅㪆㪇㪈㪉"),
             Chars("㪊㪋㪌㪍㪎㪏㪐㪑㪒㪓㪔㪕㪖㪗㪘㪙㪚㪛㪜㪝㪞㪟㪠㪡㪢㪣㪤㪥㪦㪧㪨㪩㪪㪫㪬㪭㪮㪯㪰㪱㪲㪳㪴㪵㪶㪷㪸㪹㪺㪻㪼㪽㪾㪿㫀㫁㫂㫃㫄㫅㫆㫇㫈㫉"),
             Chars("㫊㫋㫌㫍㫎㫏㫐㫑㫒㫓㫔㫕㫖㫗㫘㫙㫚㫛㫜㫝㫞㫟㫠㫡㫢㫣㫤㫥㫦㫧㫨㫩㫪㫫㫬㫭㫮㫯㫰㫱㫲㫳㫴㫵㫶㫷㫸㫹㫺㫻㫼㫽㫾㫿㮀㮁㮂㮃㮄㮅㮆㮇㮈㮉"),
             Chars("㮊㮋㮌㮍㮎㮏㮐㮑㮒㮓㮔㮕㮖㮗㮘㮙㮚㮛㮜㮝㮞㮟㮠㮡㮢㮣㮤㮥㮦㮧㮨㮩㮪㮫㮬㮭㮮㮯㮰㮱㮲㮳㮴㮵㮶㮷㮸㮹㮺㮻㮼㮽㮾㮿㯀㯁㯂㯃㯄㯅㯆㯇㯈㯉"),
             Chars("㯊㯋㯌㯍㯎㯏㯐㯑㯒㯓㯔㯕㯖㯗㯘㯙㯚㯛㯜㯝㯞㯟㯠㯡㯢㯣㯤㯥㯦㯧㯨㯩㯪㯫㯬㯭㯮㯯㯰㯱㯲㯳㯴㯵㯶㯷㯸㯹㯺㯻㯼㯽㯾㯿㲀㲁㲂㲃㲄㲅㲆㲇㲈㲉"),
             Chars("㲊㲋㲌㲍㲎㲏㲐㲑㲒㲓㲔㲕㲖㲗㲘㲙㲚㲛㲜㲝㲞㲟㲠㲡㲢㲣㲤㲥㲦㲧㲨㲩㲪㲫㲬㲭㲮㲯㲰㲱㲲㲳㲴㲵㲶㲷㲸㲹㲺㲻㲼㲽㲾㲿㳀㳁㳂㳃㳄㳅㳆㳇㳈㳉"),
             Chars("㳊㳋㳌㳍㳎㳏㳐㳑㳒㳓㳔㳕㳖㳗㳘㳙㳚㳛㳜㳝㳞㳟㳠㳡㳢㳣㳤㳥㳦㳧㳨㳩㳪㳫㳬㳭㳮㳯㳰㳱㳲㳳㳴㳵㳶㳷㳸㳹㳺㳻㳼㳽㳾㳿㶀㶁㶂㶃㶄㶅㶆㶇㶈㶉"),
             Chars("㶊㶋㶌㶍㶎㶏㶐㶑㶒㶓㶔㶕㶖㶗㶘㶙㶚㶛㶜㶝㶞㶟㶠㶡㶢㶣㶤㶥㶦㶧㶨㶩㶪㶫㶬㶭㶮㶯㶰㶱㶲㶳㶴㶵㶶㶷㶸㶹㶺㶻㶼㶽㶾㶿㷀㷁㷂㷃㷄㷅㷆㷇㷈㷉"),
             Chars("㷊㷋㷌㷍㷎㷏㷐㷑㷒㷓㷔㷕㷖㷗㷘㷙㷚㷛㷜㷝㷞㷟㷠㷡㷢㷣㷤㷥㷦㷧㷨㷩㷪㷫㷬㷭㷮㷯㷰㷱㷲㷳㷴㷵㷶㷷㷸㷹㷺㷻㷼㷽㷾㷿㺀㺁㺂㺃㺄㺅㺆㺇㺈㺉"),
             Chars("㺊㺋㺌㺍㺎㺏㺐㺑㺒㺓㺔㺕㺖㺗㺘㺙㺚㺛㺜㺝㺞㺟㺠㺡㺢㺣㺤㺥㺦㺧㺨㺩㺪㺫㺬㺭㺮㺯㺰㺱㺲㺳㺴㺵㺶㺷㺸㺹㺺㺻㺼㺽㺾㺿㻀㻁㻂㻃㻄㻅㻆㻇㻈㻉"),
             Chars("㻊㻋㻌㻍㻎㻏㻐㻑㻒㻓㻔㻕㻖㻗㻘㻙㻚㻛㻜㻝㻞㻟㻠㻡㻢㻣㻤㻥㻦㻧㻨㻩㻪㻫㻬㻭㻮㻯㻰㻱㻲㻳㻴㻵㻶㻷㻸㻹㻺㻻㻼㻽㻾㻿㾀㾁㾂㾃㾄㾅㾆㾇㾈㾉"),
             Chars("㾊㾋㾌㾍㾎㾏㾐㾑㾒㾓㾔㾕㾖㾗㾘㾙㾚㾛㾜㾝㾞㾟㾠㾡㾢㾣㾤㾥㾦㾧㾨㾩㾪㾫㾬㾭㾮㾯㾰㾱㾲㾳㾴㾵㾶㾷㾸㾹㾺㾻㾼㾽㾾㾿㿀㿁㿂㿃㿄㿅㿆㿇㿈㿉"),
             Chars("㿊㿋㿌㿍㿎㿏㿐㿑㿒㿓㿔㿕㿖㿗㿘㿙㿚㿛㿜㿝㿞㿟㿠㿡㿢㿣㿤㿥㿦㿧㿨㿩㿪㿫㿬㿭㿮㿯㿰㿱㿲㿳㿴㿵㿶㿷㿸㿹㿺㿻㿼㿽㿾㿿䂀䂁䂂䂃䂄䂅䂆䂇䂈䂉"),
             Chars("䂊䂋䂌䂍䂎䂏䂐䂑䂒䂓䂔䂕䂖䂗䂘䂙䂚䂛䂜䂝䂞䂟䂠䂡䂢䂣䂤䂥䂦䂧䂨䂩䂪䂫䂬䂭䂮䂯䂰䂱䂲䂳䂴䂵䂶䂷䂸䂹䂺䂻䂼䂽䂾䂿䃀䃁䃂䃃䃄䃅䃆䃇䃈䃉"),
             Chars("䃊䃋䃌䃍䃎䃏䃐䃑䃒䃓䃔䃕䃖䃗䃘䃙䃚䃛䃜䃝䃞䃟䃠䃡䃢䃣䃤䃥䃦䃧䃨䃩䃪䃫䃬䃭䃮䃯䃰䃱䃲䃳䃴䃵䃶䃷䃸䃹䃺䃻䃼䃽䃾䃿䆀䆁䆂䆃䆄䆅䆆䆇䆈䆉"),
             Chars("䆊䆋䆌䆍䆎䆏䆐䆑䆒䆓䆔䆕䆖䆗䆘䆙䆚䆛䆜䆝䆞䆟䆠䆡䆢䆣䆤䆥䆦䆧䆨䆩䆪䆫䆬䆭䆮䆯䆰䆱䆲䆳䆴䆵䆶䆷䆸䆹䆺䆻䆼䆽䆾䆿䇀䇁䇂䇃䇄䇅䇆䇇䇈䇉"),
             Chars("䇊䇋䇌䇍䇎䇏䇐䇑䇒䇓䇔䇕䇖䇗䇘䇙䇚䇛䇜䇝䇞䇟䇠䇡䇢䇣䇤䇥䇦䇧䇨䇩䇪䇫䇬䇭䇮䇯䇰䇱䇲䇳䇴䇵䇶䇷䇸䇹䇺䇻䇼䇽䇾䇿䊀䊁䊂䊃䊄䊅䊆䊇䊈䊉"),
             Chars("䊊䊋䊌䊍䊎䊏䊐䊑䊒䊓䊔䊕䊖䊗䊘䊙䊚䊛䊜䊝䊞䊟䊠䊡䊢䊣䊤䊥䊦䊧䊨䊩䊪䊫䊬䊭䊮䊯䊰䊱䊲䊳䊴䊵䊶䊷䊸䊹䊺䊻䊼䊽䊾䊿䋀䋁䋂䋃䋄䋅䋆䋇䋈䋉"),
             Chars("䋊䋋䋌䋍䋎䋏䋐䋑䋒䋓䋔䋕䋖䋗䋘䋙䋚䋛䋜䋝䋞䋟䋠䋡䋢䋣䋤䋥䋦䋧䋨䋩䋪䋫䋬䋭䋮䋯䋰䋱䋲䋳䋴䋵䋶䋷䋸䋹䋺䋻䋼䋽䋾䋿䎀䎁䎂䎃䎄䎅䎆䎇䎈䎉"),
             Chars("䎊䎋䎌䎍䎎䎏䎐䎑䎒䎓䎔䎕䎖䎗䎘䎙䎚䎛䎜䎝䎞䎟䎠䎡䎢䎣䎤䎥䎦䎧䎨䎩䎪䎫䎬䎭䎮䎯䎰䎱䎲䎳䎴䎵䎶䎷䎸䎹䎺䎻䎼䎽䎾䎿䏀䏁䏂䏃䏄䏅䏆䏇䏈䏉"),
             Chars("䏊䏋䏌䏍䏎䏏䏐䏑䏒䏓䏔䏕䏖䏗䏘䏙䏚䏛䏜䏝䏞䏟䏠䏡䏢䏣䏤䏥䏦䏧䏨䏩䏪䏫䏬䏭䏮䏯䏰䏱䏲䏳䏴䏵䏶䏷䏸䏹䏺䏻䏼䏽䏾䏿䒀䒁䒂䒃䒄䒅䒆䒇䒈䒉"),
             Chars("䒊䒋䒌䒍䒎䒏䒐䒑䒒䒓䒔䒕䒖䒗䒘䒙䒚䒛䒜䒝䒞䒟䒠䒡䒢䒣䒤䒥䒦䒧䒨䒩䒪䒫䒬䒭䒮䒯䒰䒱䒲䒳䒴䒵䒶䒷䒸䒹䒺䒻䒼䒽䒾䒿䓀䓁䓂䓃䓄䓅䓆䓇䓈䓉"),
             Chars("䓊䓋䓌䓍䓎䓏䓐䓑䓒䓓䓔䓕䓖䓗䓘䓙䓚䓛䓜䓝䓞䓟䓠䓡䓢䓣䓤䓥䓦䓧䓨䓩䓪䓫䓬䓭䓮䓯䓰䓱䓲䓳䓴䓵䓶䓷䓸䓹䓺䓻䓼䓽䓾䓿䖀䖁䖂䖃䖄䖅䖆䖇䖈䖉"),
             Chars("䖊䖋䖌䖍䖎䖏䖐䖑䖒䖓䖔䖕䖖䖗䖘䖙䖚䖛䖜䖝䖞䖟䖠䖡䖢䖣䖤䖥䖦䖧䖨䖩䖪䖫䖬䖭䖮䖯䖰䖱䖲䖳䖴䖵䖶䖷䖸䖹䖺䖻䖼䖽䖾䖿䗀䗁䗂䗃䗄䗅䗆䗇䗈䗉"),
             Chars("䗊䗋䗌䗍䗎䗏䗐䗑䗒䗓䗔䗕䗖䗗䗘䗙䗚䗛䗜䗝䗞䗟䗠䗡䗢䗣䗤䗥䗦䗧䗨䗩䗪䗫䗬䗭䗮䗯䗰䗱䗲䗳䗴䗵䗶䗷䗸䗹䗺䗻䗼䗽䗾䗿䚀䚁䚂䚃䚄䚅䚆䚇䚈䚉"),
             Chars("䚊䚋䚌䚍䚎䚏䚐䚑䚒䚓䚔䚕䚖䚗䚘䚙䚚䚛䚜䚝䚞䚟䚠䚡䚢䚣䚤䚥䚦䚧䚨䚩䚪䚫䚬䚭䚮䚯䚰䚱䚲䚳䚴䚵䚶䚷䚸䚹䚺䚻䚼䚽䚾䚿䛀䛁䛂䛃䛄䛅䛆䛇䛈䛉"),
             Chars("䛊䛋䛌䛍䛎䛏䛐䛑䛒䛓䛔䛕䛖䛗䛘䛙䛚䛛䛜䛝䛞䛟䛠䛡䛢䛣䛤䛥䛦䛧䛨䛩䛪䛫䛬䛭䛮䛯䛰䛱䛲䛳䛴䛵䛶䛷䛸䛹䛺䛻䛼䛽䛾䛿䞀䞁䞂䞃䞄䞅䞆䞇䞈䞉"),
             Chars("䞊䞋䞌䞍䞎䞏䞐䞑䞒䞓䞔䞕䞖䞗䞘䞙䞚䞛䞜䞝䞞䞟䞠䞡䞢䞣䞤䞥䞦䞧䞨䞩䞪䞫䞬䞭䞮䞯䞰䞱䞲䞳䞴䞵䞶䞷䞸䞹䞺䞻䞼䞽䞾䞿䟀䟁䟂䟃䟄䟅䟆䟇䟈䟉"),
             Chars("䟊䟋䟌䟍䟎䟏䟐䟑䟒䟓䟔䟕䟖䟗䟘䟙䟚䟛䟜䟝䟞䟟䟠䟡䟢䟣䟤䟥䟦䟧䟨䟩䟪䟫䟬䟭䟮䟯䟰䟱䟲䟳䟴䟵䟶䟷䟸䟹䟺䟻䟼䟽䟾䟿䢀䢁䢂䢃䢄䢅䢆䢇䢈䢉"),
             Chars("䢊䢋䢌䢍䢎䢏䢐䢑䢒䢓䢔䢕䢖䢗䢘䢙䢚䢛䢜䢝䢞䢟䢠䢡䢢䢣䢤䢥䢦䢧䢨䢩䢪䢫䢬䢭䢮䢯䢰䢱䢲䢳䢴䢵䢶䢷䢸䢹䢺䢻䢼䢽䢾䢿䣀䣁䣂䣃䣄䣅䣆䣇䣈䣉"),
             Chars("䣊䣋䣌䣍䣎䣏䣐䣑䣒䣓䣔䣕䣖䣗䣘䣙䣚䣛䣜䣝䣞䣟䣠䣡䣢䣣䣤䣥䣦䣧䣨䣩䣪䣫䣬䣭䣮䣯䣰䣱䣲䣳䣴䣵䣶䣷䣸䣹䣺䣻䣼䣽䣾䣿䦀䦁䦂䦃䦄䦅䦆䦇䦈䦉"),
             Chars("䦊䦋䦌䦍䦎䦏䦐䦑䦒䦓䦔䦕䦖䦗䦘䦙䦚䦛䦜䦝䦞䦟䦠䦡䦢䦣䦤䦥䦦䦧䦨䦩䦪䦫䦬䦭䦮䦯䦰䦱䦲䦳䦴䦵䦶䦷䦸䦹䦺䦻䦼䦽䦾䦿䧀䧁䧂䧃䧄䧅䧆䧇䧈䧉"),
             Chars("䧊䧋䧌䧍䧎䧏䧐䧑䧒䧓䧔䧕䧖䧗䧘䧙䧚䧛䧜䧝䧞䧟䧠䧡䧢䧣䧤䧥䧦䧧䧨䧩䧪䧫䧬䧭䧮䧯䧰䧱䧲䧳䧴䧵䧶䧷䧸䧹䧺䧻䧼䧽䧾䧿䪀䪁䪂䪃䪄䪅䪆䪇䪈䪉"),
             Chars("䪊䪋䪌䪍䪎䪏䪐䪑䪒䪓䪔䪕䪖䪗䪘䪙䪚䪛䪜䪝䪞䪟䪠䪡䪢䪣䪤䪥䪦䪧䪨䪩䪪䪫䪬䪭䪮䪯䪰䪱䪲䪳䪴䪵䪶䪷䪸䪹䪺䪻䪼䪽䪾䪿䫀䫁䫂䫃䫄䫅䫆䫇䫈䫉"),
             Chars("䫊䫋䫌䫍䫎䫏䫐䫑䫒䫓䫔䫕䫖䫗䫘䫙䫚䫛䫜䫝䫞䫟䫠䫡䫢䫣䫤䫥䫦䫧䫨䫩䫪䫫䫬䫭䫮䫯䫰䫱䫲䫳䫴䫵䫶䫷䫸䫹䫺䫻䫼䫽䫾䫿䮀䮁䮂䮃䮄䮅䮆䮇䮈䮉"),
             Chars("䮊䮋䮌䮍䮎䮏䮐䮑䮒䮓䮔䮕䮖䮗䮘䮙䮚䮛䮜䮝䮞䮟䮠䮡䮢䮣䮤䮥䮦䮧䮨䮩䮪䮫䮬䮭䮮䮯䮰䮱䮲䮳䮴䮵䮶䮷䮸䮹䮺䮻䮼䮽䮾䮿䯀䯁䯂䯃䯄䯅䯆䯇䯈䯉"),
             Chars("䯊䯋䯌䯍䯎䯏䯐䯑䯒䯓䯔䯕䯖䯗䯘䯙䯚䯛䯜䯝䯞䯟䯠䯡䯢䯣䯤䯥䯦䯧䯨䯩䯪䯫䯬䯭䯮䯯䯰䯱䯲䯳䯴䯵䯶䯷䯸䯹䯺䯻䯼䯽䯾䯿䲀䲁䲂䲃䲄䲅䲆䲇䲈䲉"),
             Chars("䲊䲋䲌䲍䲎䲏䲐䲑䲒䲓䲔䲕䲖䲗䲘䲙䲚䲛䲜䲝䲞䲟䲠䲡䲢䲣䲤䲥䲦䲧䲨䲩䲪䲫䲬䲭䲮䲯䲰䲱䲲䲳䲴䲵䲶䲷䲸䲹䲺䲻䲼䲽䲾䲿䳀䳁䳂䳃䳄䳅䳆䳇䳈䳉"),
             Chars("䳊䳋䳌䳍䳎䳏䳐䳑䳒䳓䳔䳕䳖䳗䳘䳙䳚䳛䳜䳝䳞䳟䳠䳡䳢䳣䳤䳥䳦䳧䳨䳩䳪䳫䳬䳭䳮䳯䳰䳱䳲䳳䳴䳵䳶䳷䳸䳹䳺䳻䳼䳽䳾䳿䶀䶁䶂䶃䶄䶅䶆䶇䶈䶉"),
             Chars("䶊䶋䶌䶍䶎䶏䶐䶑䶒䶓䶔䶕䶖䶗䶘䶙䶚䶛䶜䶝䶞䶟䶠䶡䶢䶣䶤䶥䶦䶧䶨䶩䶪䶫䶬䶭䶮䶯䶰䶱䶲䶳䶴䶵䶶䶷䶸䶹䶺䶻䶼䶽䶾䶿亀亁亂亃亄亅了亇予争"),
             Chars("亊事二亍于亏亐云互亓五井亖亗亘亙亚些亜亝亞亟亠亡亢亣交亥亦产亨亩亪享京亭亮亯亰亱亲亳亴亵亶亷亸亹人亻亼亽亾亿什仁仂仃仄仅仆仇仈仉"),
             Chars("今介仌仍从仏仐仑仒仓仔仕他仗付仙仚仛仜仝仞仟仠仡仢代令以仦仧仨仩仪仫们仭仮仯仰仱仲仳仴仵件价仸仹仺任仼份仾仿侀侁侂侃侄侅來侇侈侉"),
             Chars("侊例侌侍侎侏侐侑侒侓侔侕侖侗侘侙侚供侜依侞侟侠価侢侣侤侥侦侧侨侩侪侫侬侭侮侯侰侱侲侳侴侵侶侷侸侹侺侻侼侽侾便俀俁係促俄俅俆俇俈俉"),
             Chars("俊俋俌俍俎俏俐俑俒俓俔俕俖俗俘俙俚俛俜保俞俟俠信俢俣俤俥俦俧俨俩俪俫俬俭修俯俰俱俲俳俴俵俶俷俸俹俺俻俼俽俾俿傀傁傂傃傄傅傆傇傈傉"),
             Chars("傊傋傌傍傎傏傐傑傒傓傔傕傖傗傘備傚傛傜傝傞傟傠傡傢傣傤傥傦傧储傩傪傫催傭傮傯傰傱傲傳傴債傶傷傸傹傺傻傼傽傾傿僀僁僂僃僄僅僆僇僈僉"),
             Chars("僊僋僌働僎像僐僑僒僓僔僕僖僗僘僙僚僛僜僝僞僟僠僡僢僣僤僥僦僧僨僩僪僫僬僭僮僯僰僱僲僳僴僵僶僷僸價僺僻僼僽僾僿冀冁冂冃冄内円冇冈冉"),
             Chars("冊冋册再冎冏冐冑冒冓冔冕冖冗冘写冚军农冝冞冟冠冡冢冣冤冥冦冧冨冩冪冫冬冭冮冯冰冱冲决冴况冶冷冸冹冺冻冼冽冾冿净凁凂凃凄凅准凇凈凉"),
             Chars("凊凋凌凍凎减凐凑凒凓凔凕凖凗凘凙凚凛凜凝凞凟几凡凢凣凤凥処凧凨凩凪凫凬凭凮凯凰凱凲凳凴凵凶凷凸凹出击凼函凾凿劀劁劂劃劄劅劆劇劈劉"),
             Chars("劊劋劌劍劎劏劐劑劒劓劔劕劖劗劘劙劚力劜劝办功加务劢劣劤劥劦劧动助努劫劬劭劮劯劰励劲劳労劵劶劷劸効劺劻劼劽劾势勀勁勂勃勄勅勆勇勈勉"),
             Chars("勊勋勌勍勎勏勐勑勒勓勔動勖勗勘務勚勛勜勝勞募勠勡勢勣勤勥勦勧勨勩勪勫勬勭勮勯勰勱勲勳勴勵勶勷勸勹勺勻勼勽勾勿厀厁厂厃厄厅历厇厈厉"),
             Chars("厊压厌厍厎厏厐厑厒厓厔厕厖厗厘厙厚厛厜厝厞原厠厡厢厣厤厥厦厧厨厩厪厫厬厭厮厯厰厱厲厳厴厵厶厷厸厹厺去厼厽厾县叀叁参參叄叅叆叇又叉"),
             Chars("及友双反収叏叐发叒叓叔叕取受变叙叚叛叜叝叞叟叠叡叢口古句另叧叨叩只叫召叭叮可台叱史右叴叵叶号司叹叺叻叼叽叾叿咀咁咂咃咄咅咆咇咈咉"),
             Chars("咊咋和咍咎咏咐咑咒咓咔咕咖咗咘咙咚咛咜咝咞咟咠咡咢咣咤咥咦咧咨咩咪咫咬咭咮咯咰咱咲咳咴咵咶咷咸咹咺咻咼咽咾咿哀品哂哃哄哅哆哇哈哉"),
             Chars("哊哋哌响哎哏哐哑哒哓哔哕哖哗哘哙哚哛哜哝哞哟哠員哢哣哤哥哦哧哨哩哪哫哬哭哮哯哰哱哲哳哴哵哶哷哸哹哺哻哼哽哾哿喀喁喂喃善喅喆喇喈喉"),
             Chars("喊喋喌喍喎喏喐喑喒喓喔喕喖喗喘喙喚喛喜喝喞喟喠喡喢喣喤喥喦喧喨喩喪喫喬喭單喯喰喱喲喳喴喵営喷喸喹喺喻喼喽喾喿嗀嗁嗂嗃嗄嗅嗆嗇嗈嗉"),
             Chars("嗊嗋嗌嗍嗎嗏嗐嗑嗒嗓嗔嗕嗖嗗嗘嗙嗚嗛嗜嗝嗞嗟嗠嗡嗢嗣嗤嗥嗦嗧嗨嗩嗪嗫嗬嗭嗮嗯嗰嗱嗲嗳嗴嗵嗶嗷嗸嗹嗺嗻嗼嗽嗾嗿嚀嚁嚂嚃嚄嚅嚆嚇嚈嚉"),
             Chars("嚊嚋嚌嚍嚎嚏嚐嚑嚒嚓嚔嚕嚖嚗嚘嚙嚚嚛嚜嚝嚞嚟嚠嚡嚢嚣嚤嚥嚦嚧嚨嚩嚪嚫嚬嚭嚮嚯嚰嚱嚲嚳嚴嚵嚶嚷嚸嚹嚺嚻嚼嚽嚾嚿囀囁囂囃囄囅囆囇囈囉"),
             Chars("囊囋囌囍囎囏囐囑囒囓囔囕囖囗囘囙囚四囜囝回囟因囡团団囤囥囦囧囨囩囪囫囬园囮囯困囱囲図围囵囶囷囸囹固囻囼国图囿垀垁垂垃垄垅垆垇垈垉"),
             Chars("垊型垌垍垎垏垐垑垒垓垔垕垖垗垘垙垚垛垜垝垞垟垠垡垢垣垤垥垦垧垨垩垪垫垬垭垮垯垰垱垲垳垴垵垶垷垸垹垺垻垼垽垾垿埀埁埂埃埄埅埆埇埈埉"),
             Chars("埊埋埌埍城埏埐埑埒埓埔埕埖埗埘埙埚埛埜埝埞域埠埡埢埣埤埥埦埧埨埩埪埫埬埭埮埯埰埱埲埳埴埵埶執埸培基埻埼埽埾埿墀墁墂境墄墅墆墇墈墉"),
             Chars("墊墋墌墍墎墏墐墑墒墓墔墕墖増墘墙墚墛墜墝增墟墠墡墢墣墤墥墦墧墨墩墪墫墬墭墮墯墰墱墲墳墴墵墶墷墸墹墺墻墼墽墾墿壀壁壂壃壄壅壆壇壈壉"),
             Chars("壊壋壌壍壎壏壐壑壒壓壔壕壖壗壘壙壚壛壜壝壞壟壠壡壢壣壤壥壦壧壨壩壪士壬壭壮壯声壱売壳壴壵壶壷壸壹壺壻壼壽壾壿妀妁如妃妄妅妆妇妈妉"),
             Chars("妊妋妌妍妎妏妐妑妒妓妔妕妖妗妘妙妚妛妜妝妞妟妠妡妢妣妤妥妦妧妨妩妪妫妬妭妮妯妰妱妲妳妴妵妶妷妸妹妺妻妼妽妾妿姀姁姂姃姄姅姆姇姈姉"),
             Chars("姊始姌姍姎姏姐姑姒姓委姕姖姗姘姙姚姛姜姝姞姟姠姡姢姣姤姥姦姧姨姩姪姫姬姭姮姯姰姱姲姳姴姵姶姷姸姹姺姻姼姽姾姿媀媁媂媃媄媅媆媇媈媉"),
             Chars("媊媋媌媍媎媏媐媑媒媓媔媕媖媗媘媙媚媛媜媝媞媟媠媡媢媣媤媥媦媧媨媩媪媫媬媭媮媯媰媱媲媳媴媵媶媷媸媹媺媻媼媽媾媿嫀嫁嫂嫃嫄嫅嫆嫇嫈嫉"),
             Chars("嫊嫋嫌嫍嫎嫏嫐嫑嫒嫓嫔嫕嫖嫗嫘嫙嫚嫛嫜嫝嫞嫟嫠嫡嫢嫣嫤嫥嫦嫧嫨嫩嫪嫫嫬嫭嫮嫯嫰嫱嫲嫳嫴嫵嫶嫷嫸嫹嫺嫻嫼嫽嫾嫿宀宁宂它宄宅宆宇守安"),
             Chars("宊宋完宍宎宏宐宑宒宓宔宕宖宗官宙定宛宜宝实実宠审客宣室宥宦宧宨宩宪宫宬宭宮宯宰宱宲害宴宵家宷宸容宺宻宼宽宾宿寀寁寂寃寄寅密寇寈寉"),
             Chars("寊寋富寍寎寏寐寑寒寓寔寕寖寗寘寙寚寛寜寝寞察寠寡寢寣寤寥實寧寨審寪寫寬寭寮寯寰寱寲寳寴寵寶寷寸对寺寻导寽対寿岀岁岂岃岄岅岆岇岈岉"),
             Chars("岊岋岌岍岎岏岐岑岒岓岔岕岖岗岘岙岚岛岜岝岞岟岠岡岢岣岤岥岦岧岨岩岪岫岬岭岮岯岰岱岲岳岴岵岶岷岸岹岺岻岼岽岾岿峀峁峂峃峄峅峆峇峈峉"),
             Chars("峊峋峌峍峎峏峐峑峒峓峔峕峖峗峘峙峚峛峜峝峞峟峠峡峢峣峤峥峦峧峨峩峪峫峬峭峮峯峰峱峲峳峴峵島峷峸峹峺峻峼峽峾峿嶀嶁嶂嶃嶄嶅嶆嶇嶈嶉"),
             Chars("嶊嶋嶌嶍嶎嶏嶐嶑嶒嶓嶔嶕嶖嶗嶘嶙嶚嶛嶜嶝嶞嶟嶠嶡嶢嶣嶤嶥嶦嶧嶨嶩嶪嶫嶬嶭嶮嶯嶰嶱嶲嶳嶴嶵嶶嶷嶸嶹嶺嶻嶼嶽嶾嶿巀巁巂巃巄巅巆巇巈巉"),
             Chars("巊巋巌巍巎巏巐巑巒巓巔巕巖巗巘巙巚巛巜川州巟巠巡巢巣巤工左巧巨巩巪巫巬巭差巯巰己已巳巴巵巶巷巸巹巺巻巼巽巾巿庀庁庂広庄庅庆庇庈庉"),
             Chars("床庋庌庍庎序庐庑庒库应底庖店庘庙庚庛府庝庞废庠庡庢庣庤庥度座庨庩庪庫庬庭庮庯庰庱庲庳庴庵庶康庸庹庺庻庼庽庾庿廀廁廂廃廄廅廆廇廈廉"),
             Chars("廊廋廌廍廎廏廐廑廒廓廔廕廖廗廘廙廚廛廜廝廞廟廠廡廢廣廤廥廦廧廨廩廪廫廬廭廮廯廰廱廲廳廴廵延廷廸廹建廻廼廽廾廿往征徂徃径待徆徇很徉"),
             Chars("徊律後徍徎徏徐徑徒従徔徕徖得徘徙徚徛徜徝從徟徠御徢徣徤徥徦徧徨復循徫徬徭微徯徰徱徲徳徴徵徶德徸徹徺徻徼徽徾徿忀忁忂心忄必忆忇忈忉"),
             Chars("忊忋忌忍忎忏忐忑忒忓忔忕忖志忘忙忚忛応忝忞忟忠忡忢忣忤忥忦忧忨忩忪快忬忭忮忯忰忱忲忳忴念忶忷忸忹忺忻忼忽忾忿悀悁悂悃悄悅悆悇悈悉"),
             Chars("悊悋悌悍悎悏悐悑悒悓悔悕悖悗悘悙悚悛悜悝悞悟悠悡悢患悤悥悦悧您悩悪悫悬悭悮悯悰悱悲悳悴悵悶悷悸悹悺悻悼悽悾悿惀惁惂惃惄情惆惇惈惉"),
             Chars("惊惋惌惍惎惏惐惑惒惓惔惕惖惗惘惙惚惛惜惝惞惟惠惡惢惣惤惥惦惧惨惩惪惫惬惭惮惯惰惱惲想惴惵惶惷惸惹惺惻惼惽惾惿憀憁憂憃憄憅憆憇憈憉"),
             Chars("憊憋憌憍憎憏憐憑憒憓憔憕憖憗憘憙憚憛憜憝憞憟憠憡憢憣憤憥憦憧憨憩憪憫憬憭憮憯憰憱憲憳憴憵憶憷憸憹憺憻憼憽憾憿懀懁懂懃懄懅懆懇懈應"),
             Chars("懊懋懌懍懎懏懐懑懒懓懔懕懖懗懘懙懚懛懜懝懞懟懠懡懢懣懤懥懦懧懨懩懪懫懬懭懮懯懰懱懲懳懴懵懶懷懸懹懺懻懼懽懾懿技抁抂抃抄抅抆抇抈抉"),
             Chars("把抋抌抍抎抏抐抑抒抓抔投抖抗折抙抚抛抜抝択抟抠抡抢抣护报抦抧抨抩抪披抬抭抮抯抰抱抲抳抴抵抶抷抸抹抺抻押抽抾抿拀拁拂拃拄担拆拇拈拉"),
             Chars("拊拋拌拍拎拏拐拑拒拓拔拕拖拗拘拙拚招拜拝拞拟拠拡拢拣拤拥拦拧拨择拪拫括拭拮拯拰拱拲拳拴拵拶拷拸拹拺拻拼拽拾拿掀掁掂掃掄掅掆掇授掉"),
             Chars("掊掋掌掍掎掏掐掑排掓掔掕掖掗掘掙掚掛掜掝掞掟掠採探掣掤接掦控推掩措掫掬掭掮掯掰掱掲掳掴掵掶掷掸掹掺掻掼掽掾掿揀揁揂揃揄揅揆揇揈揉"),
             Chars("揊揋揌揍揎描提揑插揓揔揕揖揗揘揙揚換揜揝揞揟揠握揢揣揤揥揦揧揨揩揪揫揬揭揮揯揰揱揲揳援揵揶揷揸揹揺揻揼揽揾揿撀撁撂撃撄撅撆撇撈撉"),
             Chars("撊撋撌撍撎撏撐撑撒撓撔撕撖撗撘撙撚撛撜撝撞撟撠撡撢撣撤撥撦撧撨撩撪撫撬播撮撯撰撱撲撳撴撵撶撷撸撹撺撻撼撽撾撿擀擁擂擃擄擅擆擇擈擉"),
             Chars("擊擋擌操擎擏擐擑擒擓擔擕擖擗擘擙據擛擜擝擞擟擠擡擢擣擤擥擦擧擨擩擪擫擬擭擮擯擰擱擲擳擴擵擶擷擸擹擺擻擼擽擾擿斀斁斂斃斄斅斆文斈斉"),
             Chars("斊斋斌斍斎斏斐斑斒斓斔斕斖斗斘料斚斛斜斝斞斟斠斡斢斣斤斥斦斧斨斩斪斫斬断斮斯新斱斲斳斴斵斶斷斸方斺斻於施斾斿旀旁旂旃旄旅旆旇旈旉"),
             Chars("旊旋旌旍旎族旐旑旒旓旔旕旖旗旘旙旚旛旜旝旞旟无旡既旣旤日旦旧旨早旪旫旬旭旮旯旰旱旲旳旴旵时旷旸旹旺旻旼旽旾旿暀暁暂暃暄暅暆暇暈暉"),
             Chars("暊暋暌暍暎暏暐暑暒暓暔暕暖暗暘暙暚暛暜暝暞暟暠暡暢暣暤暥暦暧暨暩暪暫暬暭暮暯暰暱暲暳暴暵暶暷暸暹暺暻暼暽暾暿曀曁曂曃曄曅曆曇曈曉"),
             Chars("曊曋曌曍曎曏曐曑曒曓曔曕曖曗曘曙曚曛曜曝曞曟曠曡曢曣曤曥曦曧曨曩曪曫曬曭曮曯曰曱曲曳更曵曶曷書曹曺曻曼曽曾替枀极枂枃构枅枆枇枈枉"),
             Chars("枊枋枌枍枎枏析枑枒枓枔枕枖林枘枙枚枛果枝枞枟枠枡枢枣枤枥枦枧枨枩枪枫枬枭枮枯枰枱枲枳枴枵架枷枸枹枺枻枼枽枾枿柀柁柂柃柄柅柆柇柈柉"),
             Chars("柊柋柌柍柎柏某柑柒染柔柕柖柗柘柙柚柛柜柝柞柟柠柡柢柣柤查柦柧柨柩柪柫柬柭柮柯柰柱柲柳柴柵柶柷柸柹柺査柼柽柾柿梀梁梂梃梄梅梆梇梈梉"),
             Chars("梊梋梌梍梎梏梐梑梒梓梔梕梖梗梘梙梚梛梜條梞梟梠梡梢梣梤梥梦梧梨梩梪梫梬梭梮梯械梱梲梳梴梵梶梷梸梹梺梻梼梽梾梿检棁棂棃棄棅棆棇棈棉"),
             Chars("棊棋棌棍棎棏棐棑棒棓棔棕棖棗棘棙棚棛棜棝棞棟棠棡棢棣棤棥棦棧棨棩棪棫棬棭森棯棰棱棲棳棴棵棶棷棸棹棺棻棼棽棾棿榀榁概榃榄榅榆榇榈榉"),
             Chars("榊榋榌榍榎榏榐榑榒榓榔榕榖榗榘榙榚榛榜榝榞榟榠榡榢榣榤榥榦榧榨榩榪榫榬榭榮榯榰榱榲榳榴榵榶榷榸榹榺榻榼榽榾榿槀槁槂槃槄槅槆槇槈槉"),
             Chars("槊構槌槍槎槏槐槑槒槓槔槕槖槗様槙槚槛槜槝槞槟槠槡槢槣槤槥槦槧槨槩槪槫槬槭槮槯槰槱槲槳槴槵槶槷槸槹槺槻槼槽槾槿檀檁檂檃檄檅檆檇檈檉"),
             Chars("檊檋檌檍檎檏檐檑檒檓檔檕檖檗檘檙檚檛檜檝檞檟檠檡檢檣檤檥檦檧檨檩檪檫檬檭檮檯檰檱檲檳檴檵檶檷檸檹檺檻檼檽檾檿櫀櫁櫂櫃櫄櫅櫆櫇櫈櫉"),
             Chars("櫊櫋櫌櫍櫎櫏櫐櫑櫒櫓櫔櫕櫖櫗櫘櫙櫚櫛櫜櫝櫞櫟櫠櫡櫢櫣櫤櫥櫦櫧櫨櫩櫪櫫櫬櫭櫮櫯櫰櫱櫲櫳櫴櫵櫶櫷櫸櫹櫺櫻櫼櫽櫾櫿殀殁殂殃殄殅殆殇殈殉"),
             Chars("殊残殌殍殎殏殐殑殒殓殔殕殖殗殘殙殚殛殜殝殞殟殠殡殢殣殤殥殦殧殨殩殪殫殬殭殮殯殰殱殲殳殴段殶殷殸殹殺殻殼殽殾殿毀毁毂毃毄毅毆毇毈毉"),
             Chars("毊毋毌母毎每毐毑毒毓比毕毖毗毘毙毚毛毜毝毞毟毠毡毢毣毤毥毦毧毨毩毪毫毬毭毮毯毰毱毲毳毴毵毶毷毸毹毺毻毼毽毾毿沀沁沂沃沄沅沆沇沈沉"),
             Chars("沊沋沌沍沎沏沐沑沒沓沔沕沖沗沘沙沚沛沜沝沞沟沠没沢沣沤沥沦沧沨沩沪沫沬沭沮沯沰沱沲河沴沵沶沷沸油沺治沼沽沾沿泀況泂泃泄泅泆泇泈泉"),
             Chars("泊泋泌泍泎泏泐泑泒泓泔法泖泗泘泙泚泛泜泝泞泟泠泡波泣泤泥泦泧注泩泪泫泬泭泮泯泰泱泲泳泴泵泶泷泸泹泺泻泼泽泾泿涀涁涂涃涄涅涆涇消涉"),
             Chars("涊涋涌涍涎涏涐涑涒涓涔涕涖涗涘涙涚涛涜涝涞涟涠涡涢涣涤涥润涧涨涩涪涫涬涭涮涯涰涱液涳涴涵涶涷涸涹涺涻涼涽涾涿淀淁淂淃淄淅淆淇淈淉"),
             Chars("淊淋淌淍淎淏淐淑淒淓淔淕淖淗淘淙淚淛淜淝淞淟淠淡淢淣淤淥淦淧淨淩淪淫淬淭淮淯淰深淲淳淴淵淶混淸淹淺添淼淽淾淿満溁溂溃溄溅溆溇溈溉"),
             Chars("溊溋溌溍溎溏源溑溒溓溔溕準溗溘溙溚溛溜溝溞溟溠溡溢溣溤溥溦溧溨溩溪溫溬溭溮溯溰溱溲溳溴溵溶溷溸溹溺溻溼溽溾溿滀滁滂滃滄滅滆滇滈滉"),
             Chars("滊滋滌滍滎滏滐滑滒滓滔滕滖滗滘滙滚滛滜滝滞滟滠满滢滣滤滥滦滧滨滩滪滫滬滭滮滯滰滱滲滳滴滵滶滷滸滹滺滻滼滽滾滿澀澁澂澃澄澅澆澇澈澉"),
             Chars("澊澋澌澍澎澏澐澑澒澓澔澕澖澗澘澙澚澛澜澝澞澟澠澡澢澣澤澥澦澧澨澩澪澫澬澭澮澯澰澱澲澳澴澵澶澷澸澹澺澻澼澽澾澿激濁濂濃濄濅濆濇濈濉"),
             Chars("濊濋濌濍濎濏濐濑濒濓濔濕濖濗濘濙濚濛濜濝濞濟濠濡濢濣濤濥濦濧濨濩濪濫濬濭濮濯濰濱濲濳濴濵濶濷濸濹濺濻濼濽濾濿炀炁炂炃炄炅炆炇炈炉"),
             Chars("炊炋炌炍炎炏炐炑炒炓炔炕炖炗炘炙炚炛炜炝炞炟炠炡炢炣炤炥炦炧炨炩炪炫炬炭炮炯炰炱炲炳炴炵炶炷炸点為炻炼炽炾炿烀烁烂烃烄烅烆烇烈烉"),
             Chars("烊烋烌烍烎烏烐烑烒烓烔烕烖烗烘烙烚烛烜烝烞烟烠烡烢烣烤烥烦烧烨烩烪烫烬热烮烯烰烱烲烳烴烵烶烷烸烹烺烻烼烽烾烿熀熁熂熃熄熅熆熇熈熉"),
             Chars("熊熋熌熍熎熏熐熑熒熓熔熕熖熗熘熙熚熛熜熝熞熟熠熡熢熣熤熥熦熧熨熩熪熫熬熭熮熯熰熱熲熳熴熵熶熷熸熹熺熻熼熽熾熿燀燁燂燃燄燅燆燇燈燉"),
             Chars("燊燋燌燍燎燏燐燑燒燓燔燕燖燗燘燙燚燛燜燝燞營燠燡燢燣燤燥燦燧燨燩燪燫燬燭燮燯燰燱燲燳燴燵燶燷燸燹燺燻燼燽燾燿犀犁犂犃犄犅犆犇犈犉"),
             Chars("犊犋犌犍犎犏犐犑犒犓犔犕犖犗犘犙犚犛犜犝犞犟犠犡犢犣犤犥犦犧犨犩犪犫犬犭犮犯犰犱犲犳犴犵状犷犸犹犺犻犼犽犾犿狀狁狂狃狄狅狆狇狈狉"),
             Chars("狊狋狌狍狎狏狐狑狒狓狔狕狖狗狘狙狚狛狜狝狞狟狠狡狢狣狤狥狦狧狨狩狪狫独狭狮狯狰狱狲狳狴狵狶狷狸狹狺狻狼狽狾狿玀玁玂玃玄玅玆率玈玉"),
             Chars("玊王玌玍玎玏玐玑玒玓玔玕玖玗玘玙玚玛玜玝玞玟玠玡玢玣玤玥玦玧玨玩玪玫玬玭玮环现玱玲玳玴玵玶玷玸玹玺玻玼玽玾玿珀珁珂珃珄珅珆珇珈珉"),
             Chars("珊珋珌珍珎珏珐珑珒珓珔珕珖珗珘珙珚珛珜珝珞珟珠珡珢珣珤珥珦珧珨珩珪珫珬班珮珯珰珱珲珳珴珵珶珷珸珹珺珻珼珽現珿璀璁璂璃璄璅璆璇璈璉"),
             Chars("璊璋璌璍璎璏璐璑璒璓璔璕璖璗璘璙璚璛璜璝璞璟璠璡璢璣璤璥璦璧璨璩璪璫璬璭璮璯環璱璲璳璴璵璶璷璸璹璺璻璼璽璾璿瓀瓁瓂瓃瓄瓅瓆瓇瓈瓉"),
             Chars("瓊瓋瓌瓍瓎瓏瓐瓑瓒瓓瓔瓕瓖瓗瓘瓙瓚瓛瓜瓝瓞瓟瓠瓡瓢瓣瓤瓥瓦瓧瓨瓩瓪瓫瓬瓭瓮瓯瓰瓱瓲瓳瓴瓵瓶瓷瓸瓹瓺瓻瓼瓽瓾瓿疀疁疂疃疄疅疆疇疈疉"),
             Chars("疊疋疌疍疎疏疐疑疒疓疔疕疖疗疘疙疚疛疜疝疞疟疠疡疢疣疤疥疦疧疨疩疪疫疬疭疮疯疰疱疲疳疴疵疶疷疸疹疺疻疼疽疾疿痀痁痂痃痄病痆症痈痉"),
             Chars("痊痋痌痍痎痏痐痑痒痓痔痕痖痗痘痙痚痛痜痝痞痟痠痡痢痣痤痥痦痧痨痩痪痫痬痭痮痯痰痱痲痳痴痵痶痷痸痹痺痻痼痽痾痿皀皁皂皃的皅皆皇皈皉"),
             Chars("皊皋皌皍皎皏皐皑皒皓皔皕皖皗皘皙皚皛皜皝皞皟皠皡皢皣皤皥皦皧皨皩皪皫皬皭皮皯皰皱皲皳皴皵皶皷皸皹皺皻皼皽皾皿盀盁盂盃盄盅盆盇盈盉"),
             Chars("益盋盌盍盎盏盐监盒盓盔盕盖盗盘盙盚盛盜盝盞盟盠盡盢監盤盥盦盧盨盩盪盫盬盭目盯盰盱盲盳直盵盶盷相盹盺盻盼盽盾盿瞀瞁瞂瞃瞄瞅瞆瞇瞈瞉"),
             Chars("瞊瞋瞌瞍瞎瞏瞐瞑瞒瞓瞔瞕瞖瞗瞘瞙瞚瞛瞜瞝瞞瞟瞠瞡瞢瞣瞤瞥瞦瞧瞨瞩瞪瞫瞬瞭瞮瞯瞰瞱瞲瞳瞴瞵瞶瞷瞸瞹瞺瞻瞼瞽瞾瞿矀矁矂矃矄矅矆矇矈矉"),
             Chars("矊矋矌矍矎矏矐矑矒矓矔矕矖矗矘矙矚矛矜矝矞矟矠矡矢矣矤知矦矧矨矩矪矫矬短矮矯矰矱矲石矴矵矶矷矸矹矺矻矼矽矾矿碀碁碂碃碄碅碆碇碈碉"),
             Chars("碊碋碌碍碎碏碐碑碒碓碔碕碖碗碘碙碚碛碜碝碞碟碠碡碢碣碤碥碦碧碨碩碪碫碬碭碮碯碰碱碲碳碴碵碶碷碸碹確碻碼碽碾碿磀磁磂磃磄磅磆磇磈磉"),
             Chars("磊磋磌磍磎磏磐磑磒磓磔磕磖磗磘磙磚磛磜磝磞磟磠磡磢磣磤磥磦磧磨磩磪磫磬磭磮磯磰磱磲磳磴磵磶磷磸磹磺磻磼磽磾磿禀禁禂禃禄禅禆禇禈禉"),
             Chars("禊禋禌禍禎福禐禑禒禓禔禕禖禗禘禙禚禛禜禝禞禟禠禡禢禣禤禥禦禧禨禩禪禫禬禭禮禯禰禱禲禳禴禵禶禷禸禹禺离禼禽禾禿秀私秂秃秄秅秆秇秈秉"),
             Chars("秊秋秌种秎秏秐科秒秓秔秕秖秗秘秙秚秛秜秝秞租秠秡秢秣秤秥秦秧秨秩秪秫秬秭秮积称秱秲秳秴秵秶秷秸秹秺移秼秽秾秿窀突窂窃窄窅窆窇窈窉"),
             Chars("窊窋窌窍窎窏窐窑窒窓窔窕窖窗窘窙窚窛窜窝窞窟窠窡窢窣窤窥窦窧窨窩窪窫窬窭窮窯窰窱窲窳窴窵窶窷窸窹窺窻窼窽窾窿竀竁竂竃竄竅竆竇竈竉"),
             Chars("竊立竌竍竎竏竐竑竒竓竔竕竖竗竘站竚竛竜竝竞竟章竡竢竣竤童竦竧竨竩竪竫竬竭竮端竰竱竲竳竴竵競竷竸竹竺竻竼竽竾竿简箁箂箃箄箅箆箇箈箉"),
             Chars("箊箋箌箍箎箏箐箑箒箓箔箕箖算箘箙箚箛箜箝箞箟箠管箢箣箤箥箦箧箨箩箪箫箬箭箮箯箰箱箲箳箴箵箶箷箸箹箺箻箼箽箾箿節篁篂篃範篅篆篇篈築"),
             Chars("篊篋篌篍篎篏篐篑篒篓篔篕篖篗篘篙篚篛篜篝篞篟篠篡篢篣篤篥篦篧篨篩篪篫篬篭篮篯篰篱篲篳篴篵篶篷篸篹篺篻篼篽篾篿粀粁粂粃粄粅粆粇粈粉"),
             Chars("粊粋粌粍粎粏粐粑粒粓粔粕粖粗粘粙粚粛粜粝粞粟粠粡粢粣粤粥粦粧粨粩粪粫粬粭粮粯粰粱粲粳粴粵粶粷粸粹粺粻粼粽精粿糀糁糂糃糄糅糆糇糈糉"),
             Chars("糊糋糌糍糎糏糐糑糒糓糔糕糖糗糘糙糚糛糜糝糞糟糠糡糢糣糤糥糦糧糨糩糪糫糬糭糮糯糰糱糲糳糴糵糶糷糸糹糺系糼糽糾糿綀綁綂綃綄綅綆綇綈綉"),
             Chars("綊綋綌綍綎綏綐綑綒經綔綕綖綗綘継続綛綜綝綞綟綠綡綢綣綤綥綦綧綨綩綪綫綬維綮綯綰綱網綳綴綵綶綷綸綹綺綻綼綽綾綿緀緁緂緃緄緅緆緇緈緉"),
             Chars("緊緋緌緍緎総緐緑緒緓緔緕緖緗緘緙線緛緜緝緞緟締緡緢緣緤緥緦緧編緩緪緫緬緭緮緯緰緱緲緳練緵緶緷緸緹緺緻緼緽緾緿纀纁纂纃纄纅纆纇纈纉"),
             Chars("纊纋續纍纎纏纐纑纒纓纔纕纖纗纘纙纚纛纜纝纞纟纠纡红纣纤纥约级纨纩纪纫纬纭纮纯纰纱纲纳纴纵纶纷纸纹纺纻纼纽纾线绀绁绂练组绅细织终绉"),
             Chars("绊绋绌绍绎经绐绑绒结绔绕绖绗绘给绚绛络绝绞统绠绡绢绣绤绥绦继绨绩绪绫绬续绮绯绰绱绲绳维绵绶绷绸绹绺绻综绽绾绿羀羁羂羃羄羅羆羇羈羉"),
             Chars("羊羋羌羍美羏羐羑羒羓羔羕羖羗羘羙羚羛羜羝羞羟羠羡羢羣群羥羦羧羨義羪羫羬羭羮羯羰羱羲羳羴羵羶羷羸羹羺羻羼羽羾羿翀翁翂翃翄翅翆翇翈翉"),
             Chars("翊翋翌翍翎翏翐翑習翓翔翕翖翗翘翙翚翛翜翝翞翟翠翡翢翣翤翥翦翧翨翩翪翫翬翭翮翯翰翱翲翳翴翵翶翷翸翹翺翻翼翽翾翿肀肁肂肃肄肅肆肇肈肉"),
             Chars("肊肋肌肍肎肏肐肑肒肓肔肕肖肗肘肙肚肛肜肝肞肟肠股肢肣肤肥肦肧肨肩肪肫肬肭肮肯肰肱育肳肴肵肶肷肸肹肺肻肼肽肾肿胀胁胂胃胄胅胆胇胈胉"),
             Chars("胊胋背胍胎胏胐胑胒胓胔胕胖胗胘胙胚胛胜胝胞胟胠胡胢胣胤胥胦胧胨胩胪胫胬胭胮胯胰胱胲胳胴胵胶胷胸胹胺胻胼能胾胿膀膁膂膃膄膅膆膇膈膉"),
             Chars("膊膋膌膍膎膏膐膑膒膓膔膕膖膗膘膙膚膛膜膝膞膟膠膡膢膣膤膥膦膧膨膩膪膫膬膭膮膯膰膱膲膳膴膵膶膷膸膹膺膻膼膽膾膿臀臁臂臃臄臅臆臇臈臉"),
             Chars("臊臋臌臍臎臏臐臑臒臓臔臕臖臗臘臙臚臛臜臝臞臟臠臡臢臣臤臥臦臧臨臩自臫臬臭臮臯臰臱臲至致臵臶臷臸臹臺臻臼臽臾臿芀芁节芃芄芅芆芇芈芉"),
             Chars("芊芋芌芍芎芏芐芑芒芓芔芕芖芗芘芙芚芛芜芝芞芟芠芡芢芣芤芥芦芧芨芩芪芫芬芭芮芯芰花芲芳芴芵芶芷芸芹芺芻芼芽芾芿苀苁苂苃苄苅苆苇苈苉"),
             Chars("苊苋苌苍苎苏苐苑苒苓苔苕苖苗苘苙苚苛苜苝苞苟苠苡苢苣苤若苦苧苨苩苪苫苬苭苮苯苰英苲苳苴苵苶苷苸苹苺苻苼苽苾苿莀莁莂莃莄莅莆莇莈莉"),
             Chars("莊莋莌莍莎莏莐莑莒莓莔莕莖莗莘莙莚莛莜莝莞莟莠莡莢莣莤莥莦莧莨莩莪莫莬莭莮莯莰莱莲莳莴莵莶获莸莹莺莻莼莽莾莿菀菁菂菃菄菅菆菇菈菉"),
             Chars("菊菋菌菍菎菏菐菑菒菓菔菕菖菗菘菙菚菛菜菝菞菟菠菡菢菣菤菥菦菧菨菩菪菫菬菭菮華菰菱菲菳菴菵菶菷菸菹菺菻菼菽菾菿蒀蒁蒂蒃蒄蒅蒆蒇蒈蒉"),
             Chars("蒊蒋蒌蒍蒎蒏蒐蒑蒒蒓蒔蒕蒖蒗蒘蒙蒚蒛蒜蒝蒞蒟蒠蒡蒢蒣蒤蒥蒦蒧蒨蒩蒪蒫蒬蒭蒮蒯蒰蒱蒲蒳蒴蒵蒶蒷蒸蒹蒺蒻蒼蒽蒾蒿蓀蓁蓂蓃蓄蓅蓆蓇蓈蓉"),
             Chars("蓊蓋蓌蓍蓎蓏蓐蓑蓒蓓蓔蓕蓖蓗蓘蓙蓚蓛蓜蓝蓞蓟蓠蓡蓢蓣蓤蓥蓦蓧蓨蓩蓪蓫蓬蓭蓮蓯蓰蓱蓲蓳蓴蓵蓶蓷蓸蓹蓺蓻蓼蓽蓾蓿薀薁薂薃薄薅薆薇薈薉"),
             Chars("薊薋薌薍薎薏薐薑薒薓薔薕薖薗薘薙薚薛薜薝薞薟薠薡薢薣薤薥薦薧薨薩薪薫薬薭薮薯薰薱薲薳薴薵薶薷薸薹薺薻薼薽薾薿藀藁藂藃藄藅藆藇藈藉"),
             Chars("藊藋藌藍藎藏藐藑藒藓藔藕藖藗藘藙藚藛藜藝藞藟藠藡藢藣藤藥藦藧藨藩藪藫藬藭藮藯藰藱藲藳藴藵藶藷藸藹藺藻藼藽藾藿蚀蚁蚂蚃蚄蚅蚆蚇蚈蚉"),
             Chars("蚊蚋蚌蚍蚎蚏蚐蚑蚒蚓蚔蚕蚖蚗蚘蚙蚚蚛蚜蚝蚞蚟蚠蚡蚢蚣蚤蚥蚦蚧蚨蚩蚪蚫蚬蚭蚮蚯蚰蚱蚲蚳蚴蚵蚶蚷蚸蚹蚺蚻蚼蚽蚾蚿蛀蛁蛂蛃蛄蛅蛆蛇蛈蛉"),
             Chars("蛊蛋蛌蛍蛎蛏蛐蛑蛒蛓蛔蛕蛖蛗蛘蛙蛚蛛蛜蛝蛞蛟蛠蛡蛢蛣蛤蛥蛦蛧蛨蛩蛪蛫蛬蛭蛮蛯蛰蛱蛲蛳蛴蛵蛶蛷蛸蛹蛺蛻蛼蛽蛾蛿螀螁螂螃螄螅螆螇螈螉"),
             Chars("螊螋螌融螎螏螐螑螒螓螔螕螖螗螘螙螚螛螜螝螞螟螠螡螢螣螤螥螦螧螨螩螪螫螬螭螮螯螰螱螲螳螴螵螶螷螸螹螺螻螼螽螾螿蟀蟁蟂蟃蟄蟅蟆蟇蟈蟉"),
             Chars("蟊蟋蟌蟍蟎蟏蟐蟑蟒蟓蟔蟕蟖蟗蟘蟙蟚蟛蟜蟝蟞蟟蟠蟡蟢蟣蟤蟥蟦蟧蟨蟩蟪蟫蟬蟭蟮蟯蟰蟱蟲蟳蟴蟵蟶蟷蟸蟹蟺蟻蟼蟽蟾蟿袀袁袂袃袄袅袆袇袈袉"),
             Chars("袊袋袌袍袎袏袐袑袒袓袔袕袖袗袘袙袚袛袜袝袞袟袠袡袢袣袤袥袦袧袨袩袪被袬袭袮袯袰袱袲袳袴袵袶袷袸袹袺袻袼袽袾袿裀裁裂裃裄装裆裇裈裉"),
             Chars("裊裋裌裍裎裏裐裑裒裓裔裕裖裗裘裙裚裛補裝裞裟裠裡裢裣裤裥裦裧裨裩裪裫裬裭裮裯裰裱裲裳裴裵裶裷裸裹裺裻裼製裾裿覀要覂覃覄覅覆覇覈覉"),
             Chars("覊見覌覍覎規覐覑覒覓覔覕視覗覘覙覚覛覜覝覞覟覠覡覢覣覤覥覦覧覨覩親覫覬覭覮覯覰覱覲観覴覵覶覷覸覹覺覻覼覽覾覿觀见观觃规觅视觇览觉"),
             Chars("觊觋觌觍觎觏觐觑角觓觔觕觖觗觘觙觚觛觜觝觞觟觠觡觢解觤觥触觧觨觩觪觫觬觭觮觯觰觱觲觳觴觵觶觷觸觹觺觻觼觽觾觿誀誁誂誃誄誅誆誇誈誉"),
             Chars("誊誋誌認誎誏誐誑誒誓誔誕誖誗誘誙誚誛誜誝語誟誠誡誢誣誤誥誦誧誨誩說誫説読誮誯誰誱課誳誴誵誶誷誸誹誺誻誼誽誾調諀諁諂諃諄諅諆談諈諉"),
             Chars("諊請諌諍諎諏諐諑諒諓諔諕論諗諘諙諚諛諜諝諞諟諠諡諢諣諤諥諦諧諨諩諪諫諬諭諮諯諰諱諲諳諴諵諶諷諸諹諺諻諼諽諾諿讀讁讂讃讄讅讆讇讈讉"),
             Chars("變讋讌讍讎讏讐讑讒讓讔讕讖讗讘讙讚讛讜讝讞讟讠计订讣认讥讦讧讨让讪讫讬训议讯记讱讲讳讴讵讶讷许讹论讻讼讽设访诀证诂诃评诅识诇诈诉"),
             Chars("诊诋诌词诎诏诐译诒诓诔试诖诗诘诙诚诛诜话诞诟诠诡询诣诤该详诧诨诩诪诫诬语诮误诰诱诲诳说诵诶请诸诹诺读诼诽课诿貀貁貂貃貄貅貆貇貈貉"),
             Chars("貊貋貌貍貎貏貐貑貒貓貔貕貖貗貘貙貚貛貜貝貞貟負財貢貣貤貥貦貧貨販貪貫責貭貮貯貰貱貲貳貴貵貶買貸貹貺費貼貽貾貿賀賁賂賃賄賅賆資賈賉"),
             Chars("賊賋賌賍賎賏賐賑賒賓賔賕賖賗賘賙賚賛賜賝賞賟賠賡賢賣賤賥賦賧賨賩質賫賬賭賮賯賰賱賲賳賴賵賶賷賸賹賺賻購賽賾賿趀趁趂趃趄超趆趇趈趉"),
             Chars("越趋趌趍趎趏趐趑趒趓趔趕趖趗趘趙趚趛趜趝趞趟趠趡趢趣趤趥趦趧趨趩趪趫趬趭趮趯趰趱趲足趴趵趶趷趸趹趺趻趼趽趾趿跀跁跂跃跄跅跆跇跈跉"),
             Chars("跊跋跌跍跎跏跐跑跒跓跔跕跖跗跘跙跚跛跜距跞跟跠跡跢跣跤跥跦跧跨跩跪跫跬跭跮路跰跱跲跳跴践跶跷跸跹跺跻跼跽跾跿躀躁躂躃躄躅躆躇躈躉"),
             Chars("躊躋躌躍躎躏躐躑躒躓躔躕躖躗躘躙躚躛躜躝躞躟躠躡躢躣躤躥躦躧躨躩躪身躬躭躮躯躰躱躲躳躴躵躶躷躸躹躺躻躼躽躾躿軀軁軂軃軄軅軆軇軈軉"),
             Chars("車軋軌軍軎軏軐軑軒軓軔軕軖軗軘軙軚軛軜軝軞軟軠軡転軣軤軥軦軧軨軩軪軫軬軭軮軯軰軱軲軳軴軵軶軷軸軹軺軻軼軽軾軿辀辁辂较辄辅辆辇辈辉"),
             Chars("辊辋辌辍辎辏辐辑辒输辔辕辖辗辘辙辚辛辜辝辞辟辠辡辢辣辤辥辦辧辨辩辪辫辬辭辮辯辰辱農辳辴辵辶辷辸边辺辻込辽达辿迀迁迂迃迄迅迆过迈迉"),
             Chars("迊迋迌迍迎迏运近迒迓返迕迖迗还这迚进远违连迟迠迡迢迣迤迥迦迧迨迩迪迫迬迭迮迯述迱迲迳迴迵迶迷迸迹迺迻迼追迾迿邀邁邂邃還邅邆邇邈邉"),
             Chars("邊邋邌邍邎邏邐邑邒邓邔邕邖邗邘邙邚邛邜邝邞邟邠邡邢那邤邥邦邧邨邩邪邫邬邭邮邯邰邱邲邳邴邵邶邷邸邹邺邻邼邽邾邿郀郁郂郃郄郅郆郇郈郉"),
             Chars("郊郋郌郍郎郏郐郑郒郓郔郕郖郗郘郙郚郛郜郝郞郟郠郡郢郣郤郥郦郧部郩郪郫郬郭郮郯郰郱郲郳郴郵郶郷郸郹郺郻郼都郾郿醀醁醂醃醄醅醆醇醈醉"),
             Chars("醊醋醌醍醎醏醐醑醒醓醔醕醖醗醘醙醚醛醜醝醞醟醠醡醢醣醤醥醦醧醨醩醪醫醬醭醮醯醰醱醲醳醴醵醶醷醸醹醺醻醼醽醾醿釀釁釂釃釄釅釆采釈釉"),
             Chars("释釋里重野量釐金釒釓釔釕釖釗釘釙釚釛釜針釞釟釠釡釢釣釤釥釦釧釨釩釪釫釬釭釮釯釰釱釲釳釴釵釶釷釸釹釺釻釼釽釾釿銀銁銂銃銄銅銆銇銈銉"),
             Chars("銊銋銌銍銎銏銐銑銒銓銔銕銖銗銘銙銚銛銜銝銞銟銠銡銢銣銤銥銦銧銨銩銪銫銬銭銮銯銰銱銲銳銴銵銶銷銸銹銺銻銼銽銾銿鋀鋁鋂鋃鋄鋅鋆鋇鋈鋉"),
             Chars("鋊鋋鋌鋍鋎鋏鋐鋑鋒鋓鋔鋕鋖鋗鋘鋙鋚鋛鋜鋝鋞鋟鋠鋡鋢鋣鋤鋥鋦鋧鋨鋩鋪鋫鋬鋭鋮鋯鋰鋱鋲鋳鋴鋵鋶鋷鋸鋹鋺鋻鋼鋽鋾鋿鎀鎁鎂鎃鎄鎅鎆鎇鎈鎉"),
             Chars("鎊鎋鎌鎍鎎鎏鎐鎑鎒鎓鎔鎕鎖鎗鎘鎙鎚鎛鎜鎝鎞鎟鎠鎡鎢鎣鎤鎥鎦鎧鎨鎩鎪鎫鎬鎭鎮鎯鎰鎱鎲鎳鎴鎵鎶鎷鎸鎹鎺鎻鎼鎽鎾鎿鏀鏁鏂鏃鏄鏅鏆鏇鏈鏉"),
             Chars("鏊鏋鏌鏍鏎鏏鏐鏑鏒鏓鏔鏕鏖鏗鏘鏙鏚鏛鏜鏝鏞鏟鏠鏡鏢鏣鏤鏥鏦鏧鏨鏩鏪鏫鏬鏭鏮鏯鏰鏱鏲鏳鏴鏵鏶鏷鏸鏹鏺鏻鏼鏽鏾鏿钀钁钂钃钄钅钆钇针钉"),
             Chars("钊钋钌钍钎钏钐钑钒钓钔钕钖钗钘钙钚钛钜钝钞钟钠钡钢钣钤钥钦钧钨钩钪钫钬钭钮钯钰钱钲钳钴钵钶钷钸钹钺钻钼钽钾钿铀铁铂铃铄铅铆铇铈铉"),
             Chars("铊铋铌铍铎铏铐铑铒铓铔铕铖铗铘铙铚铛铜铝铞铟铠铡铢铣铤铥铦铧铨铩铪铫铬铭铮铯铰铱铲铳铴铵银铷铸铹铺铻铼铽链铿門閁閂閃閄閅閆閇閈閉"),
             Chars("閊開閌閍閎閏閐閑閒間閔閕閖閗閘閙閚閛閜閝閞閟閠閡関閣閤閥閦閧閨閩閪閫閬閭閮閯閰閱閲閳閴閵閶閷閸閹閺閻閼閽閾閿闀闁闂闃闄闅闆闇闈闉"),
             Chars("闊闋闌闍闎闏闐闑闒闓闔闕闖闗闘闙闚闛關闝闞闟闠闡闢闣闤闥闦闧门闩闪闫闬闭问闯闰闱闲闳间闵闶闷闸闹闺闻闼闽闾闿隀隁隂隃隄隅隆隇隈隉"),
             Chars("隊隋隌隍階随隐隑隒隓隔隕隖隗隘隙隚際障隝隞隟隠隡隢隣隤隥隦隧隨隩險隫隬隭隮隯隰隱隲隳隴隵隶隷隸隹隺隻隼隽难隿雀雁雂雃雄雅集雇雈雉"),
             Chars("雊雋雌雍雎雏雐雑雒雓雔雕雖雗雘雙雚雛雜雝雞雟雠雡離難雤雥雦雧雨雩雪雫雬雭雮雯雰雱雲雳雴雵零雷雸雹雺電雼雽雾雿鞀鞁鞂鞃鞄鞅鞆鞇鞈鞉"),
             Chars("鞊鞋鞌鞍鞎鞏鞐鞑鞒鞓鞔鞕鞖鞗鞘鞙鞚鞛鞜鞝鞞鞟鞠鞡鞢鞣鞤鞥鞦鞧鞨鞩鞪鞫鞬鞭鞮鞯鞰鞱鞲鞳鞴鞵鞶鞷鞸鞹鞺鞻鞼鞽鞾鞿韀韁韂韃韄韅韆韇韈韉"),
             Chars("韊韋韌韍韎韏韐韑韒韓韔韕韖韗韘韙韚韛韜韝韞韟韠韡韢韣韤韥韦韧韨韩韪韫韬韭韮韯韰韱韲音韴韵韶韷韸韹韺韻韼韽韾響颀颁颂颃预颅领颇颈颉"),
             Chars("颊颋颌颍颎颏颐频颒颓颔颕颖颗题颙颚颛颜额颞颟颠颡颢颣颤颥颦颧風颩颪颫颬颭颮颯颰颱颲颳颴颵颶颷颸颹颺颻颼颽颾颿飀飁飂飃飄飅飆飇飈飉"),
             Chars("飊飋飌飍风飏飐飑飒飓飔飕飖飗飘飙飚飛飜飝飞食飠飡飢飣飤飥飦飧飨飩飪飫飬飭飮飯飰飱飲飳飴飵飶飷飸飹飺飻飼飽飾飿馀馁馂馃馄馅馆馇馈馉"),
             Chars("馊馋馌馍馎馏馐馑馒馓馔馕首馗馘香馚馛馜馝馞馟馠馡馢馣馤馥馦馧馨馩馪馫馬馭馮馯馰馱馲馳馴馵馶馷馸馹馺馻馼馽馾馿駀駁駂駃駄駅駆駇駈駉"),
             Chars("駊駋駌駍駎駏駐駑駒駓駔駕駖駗駘駙駚駛駜駝駞駟駠駡駢駣駤駥駦駧駨駩駪駫駬駭駮駯駰駱駲駳駴駵駶駷駸駹駺駻駼駽駾駿骀骁骂骃骄骅骆骇骈骉"),
             Chars("骊骋验骍骎骏骐骑骒骓骔骕骖骗骘骙骚骛骜骝骞骟骠骡骢骣骤骥骦骧骨骩骪骫骬骭骮骯骰骱骲骳骴骵骶骷骸骹骺骻骼骽骾骿髀髁髂髃髄髅髆髇髈髉"),
             Chars("髊髋髌髍髎髏髐髑髒髓體髕髖髗高髙髚髛髜髝髞髟髠髡髢髣髤髥髦髧髨髩髪髫髬髭髮髯髰髱髲髳髴髵髶髷髸髹髺髻髼髽髾髿鮀鮁鮂鮃鮄鮅鮆鮇鮈鮉"),
             Chars("鮊鮋鮌鮍鮎鮏鮐鮑鮒鮓鮔鮕鮖鮗鮘鮙鮚鮛鮜鮝鮞鮟鮠鮡鮢鮣鮤鮥鮦鮧鮨鮩鮪鮫鮬鮭鮮鮯鮰鮱鮲鮳鮴鮵鮶鮷鮸鮹鮺鮻鮼鮽鮾鮿鯀鯁鯂鯃鯄鯅鯆鯇鯈鯉"),
             Chars("鯊鯋鯌鯍鯎鯏鯐鯑鯒鯓鯔鯕鯖鯗鯘鯙鯚鯛鯜鯝鯞鯟鯠鯡鯢鯣鯤鯥鯦鯧鯨鯩鯪鯫鯬鯭鯮鯯鯰鯱鯲鯳鯴鯵鯶鯷鯸鯹鯺鯻鯼鯽鯾鯿鲀鲁鲂鲃鲄鲅鲆鲇鲈鲉"),
             Chars("鲊鲋鲌鲍鲎鲏鲐鲑鲒鲓鲔鲕鲖鲗鲘鲙鲚鲛鲜鲝鲞鲟鲠鲡鲢鲣鲤鲥鲦鲧鲨鲩鲪鲫鲬鲭鲮鲯鲰鲱鲲鲳鲴鲵鲶鲷鲸鲹鲺鲻鲼鲽鲾鲿鳀鳁鳂鳃鳄鳅鳆鳇鳈鳉"),
             Chars("鳊鳋鳌鳍鳎鳏鳐鳑鳒鳓鳔鳕鳖鳗鳘鳙鳚鳛鳜鳝鳞鳟鳠鳡鳢鳣鳤鳥鳦鳧鳨鳩鳪鳫鳬鳭鳮鳯鳰鳱鳲鳳鳴鳵鳶鳷鳸鳹鳺鳻鳼鳽鳾鳿鶀鶁鶂鶃鶄鶅鶆鶇鶈鶉"),
             Chars("鶊鶋鶌鶍鶎鶏鶐鶑鶒鶓鶔鶕鶖鶗鶘鶙鶚鶛鶜鶝鶞鶟鶠鶡鶢鶣鶤鶥鶦鶧鶨鶩鶪鶫鶬鶭鶮鶯鶰鶱鶲鶳鶴鶵鶶鶷鶸鶹鶺鶻鶼鶽鶾鶿鷀鷁鷂鷃鷄鷅鷆鷇鷈鷉"),
             Chars("鷊鷋鷌鷍鷎鷏鷐鷑鷒鷓鷔鷕鷖鷗鷘鷙鷚鷛鷜鷝鷞鷟鷠鷡鷢鷣鷤鷥鷦鷧鷨鷩鷪鷫鷬鷭鷮鷯鷰鷱鷲鷳鷴鷵鷶鷷鷸鷹鷺鷻鷼鷽鷾鷿麀麁麂麃麄麅麆麇麈麉"),
             Chars("麊麋麌麍麎麏麐麑麒麓麔麕麖麗麘麙麚麛麜麝麞麟麠麡麢麣麤麥麦麧麨麩麪麫麬麭麮麯麰麱麲麳麴麵麶麷麸麹麺麻麼麽麾麿黀黁黂黃黄黅黆黇黈黉"),
             Chars("黊黋黌黍黎黏黐黑黒黓黔黕黖黗默黙黚黛黜黝點黟黠黡黢黣黤黥黦黧黨黩黪黫黬黭黮黯黰黱黲黳黴黵黶黷黸黹黺黻黼黽黾黿龀龁龂龃龄龅龆龇龈龉"),
             Chars("龊龋龌龍龎龏龐龑龒龓龔龕龖龗龘龙龚龛龜龝龞龟龠龡龢龣龤龥龦龧龨龩龪龫龬龭龮龯龰龱龲龳龴龵龶龷龸龹龺龻龼龽龾龿鿀鿁鿂鿃鿄鿅鿆鿇鿈鿉"),
             Chars("鿊鿋鿌鿍鿎鿏鿐鿑鿒鿓鿔鿕鿖鿗鿘鿙鿚鿛鿜鿝鿞鿟鿠鿡鿢鿣鿤鿥鿦鿧鿨鿩鿪鿫鿬鿭鿮鿯鿰鿱鿲鿳鿴鿵鿶鿷鿸鿹鿺鿻鿼鿽鿾鿿ꂀꂁꂂꂃꂄꂅꂆꂇꂈꂉ"),
             Chars("ꂊꂋꂌꂍꂎꂏꂐꂑꂒꂓꂔꂕꂖꂗꂘꂙꂚꂛꂜꂝꂞꂟꂠꂡꂢꂣꂤꂥꂦꂧꂨꂩꂪꂫꂬꂭꂮꂯꂰꂱꂲꂳꂴꂵꂶꂷꂸꂹꂺꂻꂼꂽꂾꂿꃀꃁꃂꃃꃄꃅꃆꃇꃈꃉ"),
             Chars("ꃊꃋꃌꃍꃎꃏꃐꃑꃒꃓꃔꃕꃖꃗꃘꃙꃚꃛꃜꃝꃞꃟꃠꃡꃢꃣꃤꃥꃦꃧꃨꃩꃪꃫꃬꃭꃮꃯꃰꃱꃲꃳꃴꃵꃶꃷꃸꃹꃺꃻꃼꃽꃾꃿꆀꆁꆂꆃꆄꆅꆆꆇꆈꆉ"),
             Chars("ꆊꆋꆌꆍꆎꆏꆐꆑꆒꆓꆔꆕꆖꆗꆘꆙꆚꆛꆜꆝꆞꆟꆠꆡꆢꆣꆤꆥꆦꆧꆨꆩꆪꆫꆬꆭꆮꆯꆰꆱꆲꆳꆴꆵꆶꆷꆸꆹꆺꆻꆼꆽꆾꆿꇀꇁꇂꇃꇄꇅꇆꇇꇈꇉ"),
             Chars("ꇊꇋꇌꇍꇎꇏꇐꇑꇒꇓꇔꇕꇖꇗꇘꇙꇚꇛꇜꇝꇞꇟꇠꇡꇢꇣꇤꇥꇦꇧꇨꇩꇪꇫꇬꇭꇮꇯꇰꇱꇲꇳꇴꇵꇶꇷꇸꇹꇺꇻꇼꇽꇾꇿꊀꊁꊂꊃꊄꊅꊆꊇꊈꊉ"),
             Chars("ꊊꊋꊌꊍꊎꊏꊐꊑꊒꊓꊔꊕꊖꊗꊘꊙꊚꊛꊜꊝꊞꊟꊠꊡꊢꊣꊤꊥꊦꊧꊨꊩꊪꊫꊬꊭꊮꊯꊰꊱꊲꊳꊴꊵꊶꊷꊸꊹꊺꊻꊼꊽꊾꊿꋀꋁꋂꋃꋄꋅꋆꋇꋈꋉ"),
             Chars("ꋊꋋꋌꋍꋎꋏꋐꋑꋒꋓꋔꋕꋖꋗꋘꋙꋚꋛꋜꋝꋞꋟꋠꋡꋢꋣꋤꋥꋦꋧꋨꋩꋪꋫꋬꋭꋮꋯꋰꋱꋲꋳꋴꋵꋶꋷꋸꋹꋺꋻꋼꋽꋾꋿꎀꎁꎂꎃꎄꎅꎆꎇꎈꎉ"),
             Chars("ꎊꎋꎌꎍꎎꎏꎐꎑꎒꎓꎔꎕꎖꎗꎘꎙꎚꎛꎜꎝꎞꎟꎠꎡꎢꎣꎤꎥꎦꎧꎨꎩꎪꎫꎬꎭꎮꎯꎰꎱꎲꎳꎴꎵꎶꎷꎸꎹꎺꎻꎼꎽꎾꎿꏀꏁꏂꏃꏄꏅꏆꏇꏈꏉ"),
             Chars("ꏊꏋꏌꏍꏎꏏꏐꏑꏒꏓꏔꏕꏖꏗꏘꏙꏚꏛꏜꏝꏞꏟꏠꏡꏢꏣꏤꏥꏦꏧꏨꏩꏪꏫꏬꏭꏮꏯꏰꏱꏲꏳꏴꏵꏶꏷꏸꏹꏺꏻꏼꏽꏾꏿꒀꒁꒂꒃꒄꒅꒆꒇꒈꒉ"),
             Chars("ꒊꒋꒌꓐꓑꓒꓓꓔꓕꓖꓗꓘꓙꓚꓛꓜꓝꓞꓟꓠꓡꓢꓣꓤꓥꓦꓧꓨꓩꓪꓫꓬꓭꓮꓯꓰꓱꓲꓳꓴꓵꓶꓷꓸꓹꓺꓻꓼꓽꖀꖁꖂꖃꖄꖅꖆꖇꖈꖉꖊꖋꖌꖍꖎ"),
             Chars("ꖏꖐꖑꖒꖓꖔꖕꖖꖗꖘꖙꖚꖛꖜꖝꖞꖟꖠꖡꖢꖣꖤꖥꖦꖧꖨꖩꖪꖫꖬꖭꖮꖯꖰꖱꖲꖳꖴꖵꖶꖷꖸꖹꖺꖻꖼꖽꖾꖿꗀꗁꗂꗃꗄꗅꗆꗇꗈꗉꗊꗋꗌꗍꗎ"),
             Chars("ꗏꗐꗑꗒꗓꗔꗕꗖꗗꗘꗙꗚꗛꗜꗝꗞꗟꗠꗡꗢꗣꗤꗥꗦꗧꗨꗩꗪꗫꗬꗭꗮꗯꗰꗱꗲꗳꗴꗵꗶꗷꗸꗹꗺꗻꗼꗽꗾꗿꚀꚁꚂꚃꚄꚅꚆꚇꚈꚉꚊꚋꚌꚍꚎ"),
             Chars("ꚏꚐꚑꚒꚓꚔꚕꚖꚗꚘꚙꚚꚛꚜꚝꚠꚡꚢꚣꚤꚥꚦꚧꚨꚩꚪꚫꚬꚭꚮꚯꚰꚱꚲꚳꚴꚵꚶꚷꚸꚹꚺꚻꚼꚽꚾꚿꛀꛁꛂꛃꛄꛅꛆꛇꛈꛉꛊꛋꛌꛍꛎꛏꛐ"),
             Chars("ꛑꛒꛓꛔꛕꛖꛗꛘꛙꛚꛛꛜꛝꛞꛟꛠꛡꛢꛣꛤꛥꛦꛧꛨꛩꛪꛫꛬꛭꛮꛯꞀꞁꞂꞃꞄꞅꞆꞇꞈꞋꞌꞍꞎꞏꞐꞑꞒꞓꞔꞕꞖꞗꞘꞙꞚꞛꞜꞝꞞꞟꞠꞡꞢ"),
             Chars("ꞣꞤꞥꞦꞧꞨꞩꞪꞫꞬꞭꞮꞯꞰꞱꞲꞳꞴꞵꞶꞷꞸꞹꞺꞻꞼꞽꞾꞿꟀꟁꟂꟃꟄꟅꟆꟇꟈꟉꟊꟐꟑꟓꟕꟖꟗꟘꟙꟲꟳꟴꟵꟶꟷꟸꟹꟺꟻꟼꟽꟾꟿꢂꢃ"),
             Chars("ꢄꢅꢆꢇꢈꢉꢊꢋꢌꢍꢎꢏꢐꢑꢒꢓꢔꢕꢖꢗꢘꢙꢚꢛꢜꢝꢞꢟꢠꢡꢢꢣꢤꢥꢦꢧꢨꢩꢪꢫꢬꢭꢮꢯꢰꢱꢲꢳ꣐꣑꣒꣓꣔꣕꣖꣗꣘꣙ꣲꣳꣴꣵꣶꣷ"),
             Chars("ꣻꣽꣾꦄꦅꦆꦇꦈꦉꦊꦋꦌꦍꦎꦏꦐꦑꦒꦓꦔꦕꦖꦗꦘꦙꦚꦛꦜꦝꦞꦟꦠꦡꦢꦣꦤꦥꦦꦧꦨꦩꦪꦫꦬꦭꦮꦯꦰꦱꦲꧏ꧐꧑꧒꧓꧔꧕꧖꧗꧘꧙ꧠꧡꧢ"),
             Chars("ꧣꧤꧦꧧꧨꧩꧪꧫꧬꧭꧮꧯ꧰꧱꧲꧳꧴꧵꧶꧷꧸꧹ꧺꧻꧼꧽꧾꪀꪁꪂꪃꪄꪅꪆꪇꪈꪉꪊꪋꪌꪍꪎꪏꪐꪑꪒꪓꪔꪕꪖꪗꪘꪙꪚꪛꪜꪝꪞꪟꪠꪡꪢꪣꪤ"),
             Chars("ꪥꪦꪧꪨꪩꪪꪫꪬꪭꪮꪯꪱꪵꪶꪹꪺꪻꪼꪽꫀꫂꫛꫜꫝꫠꫡꫢꫣꫤꫥꫦꫧꫨꫩꫪꫲꫳꫴꮀꮁꮂꮃꮄꮅꮆꮇꮈꮉꮊꮋꮌꮍꮎꮏꮐꮑꮒꮓꮔꮕꮖꮗꮘꮙ"),
             Chars("ꮚꮛꮜꮝꮞꮟꮠꮡꮢꮣꮤꮥꮦꮧꮨꮩꮪꮫꮬꮭꮮꮯꮰꮱꮲꮳꮴꮵꮶꮷꮸꮹꮺꮻꮼꮽꮾꮿꯀꯁꯂꯃꯄꯅꯆꯇꯈꯉꯊꯋꯌꯍꯎꯏꯐꯑꯒꯓꯔꯕꯖꯗꯘꯙ"),
             Chars("ꯚꯛꯜꯝꯞꯟꯠꯡꯢ꯰꯱꯲꯳꯴꯵꯶꯷꯸꯹검겁겂것겄겅겆겇겈겉겊겋게겍겎겏겐겑겒겓겔겕겖겗겘겙겚겛겜겝겞겟겠겡겢겣겤겥겦겧겨격겪겫견"),
             Chars("겭겮겯결겱겲겳겴겵겶겷겸겹겺겻겼경겾겿곀곁곂곃계곅곆곇곈곉곊곋곌곍곎곏곐곑곒곓곔곕곖곗곘곙곚곛곜곝곞곟고곡곢곣곤곥곦곧골곩곪곫곬"),
             Chars("곭곮곯곰곱곲곳곴공곶곷곸곹곺곻과곽곾곿궀궁궂궃궄궅궆궇궈궉궊궋권궍궎궏궐궑궒궓궔궕궖궗궘궙궚궛궜궝궞궟궠궡궢궣궤궥궦궧궨궩궪궫궬"),
             Chars("궭궮궯궰궱궲궳궴궵궶궷궸궹궺궻궼궽궾궿귀귁귂귃귄귅귆귇귈귉귊귋귌귍귎귏귐귑귒귓귔귕귖귗귘귙귚귛규귝귞귟균귡귢귣귤귥귦귧귨귩귪귫귬"),
             Chars("귭귮귯귰귱귲귳귴귵귶귷그극귺귻근귽귾귿꺀꺁꺂꺃꺄꺅꺆꺇꺈꺉꺊꺋꺌꺍꺎꺏꺐꺑꺒꺓꺔꺕꺖꺗꺘꺙꺚꺛꺜꺝꺞꺟꺠꺡꺢꺣꺤꺥꺦꺧꺨꺩꺪꺫꺬"),
             Chars("꺭꺮꺯꺰꺱꺲꺳꺴꺵꺶꺷꺸꺹꺺꺻꺼꺽꺾꺿껀껁껂껃껄껅껆껇껈껉껊껋껌껍껎껏껐껑껒껓껔껕껖껗께껙껚껛껜껝껞껟껠껡껢껣껤껥껦껧껨껩껪껫껬"),
             Chars("껭껮껯껰껱껲껳껴껵껶껷껸껹껺껻껼껽껾껿꾀꾁꾂꾃꾄꾅꾆꾇꾈꾉꾊꾋꾌꾍꾎꾏꾐꾑꾒꾓꾔꾕꾖꾗꾘꾙꾚꾛꾜꾝꾞꾟꾠꾡꾢꾣꾤꾥꾦꾧꾨꾩꾪꾫꾬"),
             Chars("꾭꾮꾯꾰꾱꾲꾳꾴꾵꾶꾷꾸꾹꾺꾻꾼꾽꾾꾿꿀꿁꿂꿃꿄꿅꿆꿇꿈꿉꿊꿋꿌꿍꿎꿏꿐꿑꿒꿓꿔꿕꿖꿗꿘꿙꿚꿛꿜꿝꿞꿟꿠꿡꿢꿣꿤꿥꿦꿧꿨꿩꿪꿫꿬"),
             Chars("꿭꿮꿯꿰꿱꿲꿳꿴꿵꿶꿷꿸꿹꿺꿻꿼꿽꿾꿿낀낁낂낃낄낅낆낇낈낉낊낋낌낍낎낏낐낑낒낓낔낕낖낗나낙낚낛난낝낞낟날낡낢낣낤낥낦낧남납낪낫났"),
             Chars("낭낮낯낰낱낲낳내낵낶낷낸낹낺낻낼낽낾낿냀냁냂냃냄냅냆냇냈냉냊냋냌냍냎냏냐냑냒냓냔냕냖냗냘냙냚냛냜냝냞냟냠냡냢냣냤냥냦냧냨냩냪냫냬"),
             Chars("냭냮냯냰냱냲냳냴냵냶냷냸냹냺냻냼냽냾냿놀놁놂놃놄놅놆놇놈놉놊놋놌농놎놏놐놑높놓놔놕놖놗놘놙놚놛놜놝놞놟놠놡놢놣놤놥놦놧놨놩놪놫놬"),
             Chars("놭놮놯놰놱놲놳놴놵놶놷놸놹놺놻놼놽놾놿뇀뇁뇂뇃뇄뇅뇆뇇뇈뇉뇊뇋뇌뇍뇎뇏뇐뇑뇒뇓뇔뇕뇖뇗뇘뇙뇚뇛뇜뇝뇞뇟뇠뇡뇢뇣뇤뇥뇦뇧뇨뇩뇪뇫뇬"),
             Chars("뇭뇮뇯뇰뇱뇲뇳뇴뇵뇶뇷뇸뇹뇺뇻뇼뇽뇾뇿늀늁늂늃늄늅늆늇늈늉늊늋늌늍늎늏느늑늒늓는늕늖늗늘늙늚늛늜늝늞늟늠늡늢늣늤능늦늧늨늩늪늫늬"),
             Chars("늭늮늯늰늱늲늳늴늵늶늷늸늹늺늻늼늽늾늿닀닁닂닃닄닅닆닇니닉닊닋닌닍닎닏닐닑닒닓닔닕닖닗님닙닚닛닜닝닞닟닠닡닢닣다닥닦닧단닩닪닫달"),
             Chars("닭닮닯닰닱닲닳담답닶닷닸당닺닻닼닽닾닿뎀뎁뎂뎃뎄뎅뎆뎇뎈뎉뎊뎋뎌뎍뎎뎏뎐뎑뎒뎓뎔뎕뎖뎗뎘뎙뎚뎛뎜뎝뎞뎟뎠뎡뎢뎣뎤뎥뎦뎧뎨뎩뎪뎫뎬"),
             Chars("뎭뎮뎯뎰뎱뎲뎳뎴뎵뎶뎷뎸뎹뎺뎻뎼뎽뎾뎿돀돁돂돃도독돆돇돈돉돊돋돌돍돎돏돐돑돒돓돔돕돖돗돘동돚돛돜돝돞돟돠돡돢돣돤돥돦돧돨돩돪돫돬"),
             Chars("돭돮돯돰돱돲돳돴돵돶돷돸돹돺돻돼돽돾돿뒀뒁뒂뒃뒄뒅뒆뒇뒈뒉뒊뒋뒌뒍뒎뒏뒐뒑뒒뒓뒔뒕뒖뒗뒘뒙뒚뒛뒜뒝뒞뒟뒠뒡뒢뒣뒤뒥뒦뒧뒨뒩뒪뒫뒬"),
             Chars("뒭뒮뒯뒰뒱뒲뒳뒴뒵뒶뒷뒸뒹뒺뒻뒼뒽뒾뒿듀듁듂듃듄듅듆듇듈듉듊듋듌듍듎듏듐듑듒듓듔듕듖듗듘듙듚듛드득듞듟든듡듢듣들듥듦듧듨듩듪듫듬"),
             Chars("듭듮듯듰등듲듳듴듵듶듷듸듹듺듻듼듽듾듿떀떁떂떃떄떅떆떇떈떉떊떋떌떍떎떏떐떑떒떓떔떕떖떗떘떙떚떛떜떝떞떟떠떡떢떣떤떥떦떧떨떩떪떫떬"),
             Chars("떭떮떯떰떱떲떳떴떵떶떷떸떹떺떻떼떽떾떿뗀뗁뗂뗃뗄뗅뗆뗇뗈뗉뗊뗋뗌뗍뗎뗏뗐뗑뗒뗓뗔뗕뗖뗗뗘뗙뗚뗛뗜뗝뗞뗟뗠뗡뗢뗣뗤뗥뗦뗧뗨뗩뗪뗫뗬"),
             Chars("뗭뗮뗯뗰뗱뗲뗳뗴뗵뗶뗷뗸뗹뗺뗻뗼뗽뗾뗿뚀뚁뚂뚃뚄뚅뚆뚇뚈뚉뚊뚋뚌뚍뚎뚏뚐뚑뚒뚓뚔뚕뚖뚗뚘뚙뚚뚛뚜뚝뚞뚟뚠뚡뚢뚣뚤뚥뚦뚧뚨뚩뚪뚫뚬"),
             Chars("뚭뚮뚯뚰뚱뚲뚳뚴뚵뚶뚷뚸뚹뚺뚻뚼뚽뚾뚿뛀뛁뛂뛃뛄뛅뛆뛇뛈뛉뛊뛋뛌뛍뛎뛏뛐뛑뛒뛓뛔뛕뛖뛗뛘뛙뛚뛛뛜뛝뛞뛟뛠뛡뛢뛣뛤뛥뛦뛧뛨뛩뛪뛫뛬"),
             Chars("뛭뛮뛯뛰뛱뛲뛳뛴뛵뛶뛷뛸뛹뛺뛻뛼뛽뛾뛿란랁랂랃랄랅랆랇랈랉랊랋람랍랎랏랐랑랒랓랔랕랖랗래랙랚랛랜랝랞랟랠랡랢랣랤랥랦랧램랩랪랫랬"),
             Chars("랭랮랯랰랱랲랳랴략랶랷랸랹랺랻랼랽랾랿럀럁럂럃럄럅럆럇럈량럊럋럌럍럎럏럐럑럒럓럔럕럖럗럘럙럚럛럜럝럞럟럠럡럢럣럤럥럦럧럨럩럪럫러"),
             Chars("럭럮럯런럱럲럳럴럵럶럷럸럹럺럻럼럽럾럿뢀뢁뢂뢃뢄뢅뢆뢇뢈뢉뢊뢋뢌뢍뢎뢏뢐뢑뢒뢓뢔뢕뢖뢗뢘뢙뢚뢛뢜뢝뢞뢟뢠뢡뢢뢣뢤뢥뢦뢧뢨뢩뢪뢫뢬"),
             Chars("뢭뢮뢯뢰뢱뢲뢳뢴뢵뢶뢷뢸뢹뢺뢻뢼뢽뢾뢿룀룁룂룃룄룅룆룇룈룉룊룋료룍룎룏룐룑룒룓룔룕룖룗룘룙룚룛룜룝룞룟룠룡룢룣룤룥룦룧루룩룪룫룬"),
             Chars("룭룮룯룰룱룲룳룴룵룶룷룸룹룺룻룼룽룾룿릀릁릂릃름릅릆릇릈릉릊릋릌릍릎릏릐릑릒릓릔릕릖릗릘릙릚릛릜릝릞릟릠릡릢릣릤릥릦릧릨릩릪릫리"),
             Chars("릭릮릯린릱릲릳릴릵릶릷릸릹릺릻림립릾릿맀링맂맃맄맅맆맇마막맊맋만맍많맏말맑맒맓맔맕맖맗맘맙맚맛맜망맞맟맠맡맢맣매맥맦맧맨맩맪맫맬"),
             Chars("맭맮맯맰맱맲맳맴맵맶맷맸맹맺맻맼맽맾맿몀몁몂몃몄명몆몇몈몉몊몋몌몍몎몏몐몑몒몓몔몕몖몗몘몙몚몛몜몝몞몟몠몡몢몣몤몥몦몧모목몪몫몬"),
             Chars("몭몮몯몰몱몲몳몴몵몶몷몸몹몺못몼몽몾몿뫀뫁뫂뫃뫄뫅뫆뫇뫈뫉뫊뫋뫌뫍뫎뫏뫐뫑뫒뫓뫔뫕뫖뫗뫘뫙뫚뫛뫜뫝뫞뫟뫠뫡뫢뫣뫤뫥뫦뫧뫨뫩뫪뫫뫬"),
             Chars("뫭뫮뫯뫰뫱뫲뫳뫴뫵뫶뫷뫸뫹뫺뫻뫼뫽뫾뫿뮀뮁뮂뮃뮄뮅뮆뮇뮈뮉뮊뮋뮌뮍뮎뮏뮐뮑뮒뮓뮔뮕뮖뮗뮘뮙뮚뮛뮜뮝뮞뮟뮠뮡뮢뮣뮤뮥뮦뮧뮨뮩뮪뮫뮬"),
             Chars("뮭뮮뮯뮰뮱뮲뮳뮴뮵뮶뮷뮸뮹뮺뮻뮼뮽뮾뮿므믁믂믃믄믅믆믇믈믉믊믋믌믍믎믏믐믑믒믓믔믕믖믗믘믙믚믛믜믝믞믟믠믡믢믣믤믥믦믧믨믩믪믫믬"),
             Chars("믭믮믯믰믱믲믳믴믵믶믷미믹믺믻민믽믾믿벀벁벂벃버벅벆벇번벉벊벋벌벍벎벏벐벑벒벓범법벖벗벘벙벚벛벜벝벞벟베벡벢벣벤벥벦벧벨벩벪벫벬"),
             Chars("벭벮벯벰벱벲벳벴벵벶벷벸벹벺벻벼벽벾벿변볁볂볃별볅볆볇볈볉볊볋볌볍볎볏볐병볒볓볔볕볖볗볘볙볚볛볜볝볞볟볠볡볢볣볤볥볦볧볨볩볪볫볬"),
             Chars("볭볮볯볰볱볲볳보복볶볷본볹볺볻볼볽볾볿부북붂붃분붅붆붇불붉붊붋붌붍붎붏붐붑붒붓붔붕붖붗붘붙붚붛붜붝붞붟붠붡붢붣붤붥붦붧붨붩붪붫붬"),
             Chars("붭붮붯붰붱붲붳붴붵붶붷붸붹붺붻붼붽붾붿뷀뷁뷂뷃뷄뷅뷆뷇뷈뷉뷊뷋뷌뷍뷎뷏뷐뷑뷒뷓뷔뷕뷖뷗뷘뷙뷚뷛뷜뷝뷞뷟뷠뷡뷢뷣뷤뷥뷦뷧뷨뷩뷪뷫뷬"),
             Chars("뷭뷮뷯뷰뷱뷲뷳뷴뷵뷶뷷뷸뷹뷺뷻뷼뷽뷾뷿뺀뺁뺂뺃뺄뺅뺆뺇뺈뺉뺊뺋뺌뺍뺎뺏뺐뺑뺒뺓뺔뺕뺖뺗뺘뺙뺚뺛뺜뺝뺞뺟뺠뺡뺢뺣뺤뺥뺦뺧뺨뺩뺪뺫뺬"),
             Chars("뺭뺮뺯뺰뺱뺲뺳뺴뺵뺶뺷뺸뺹뺺뺻뺼뺽뺾뺿뻀뻁뻂뻃뻄뻅뻆뻇뻈뻉뻊뻋뻌뻍뻎뻏뻐뻑뻒뻓뻔뻕뻖뻗뻘뻙뻚뻛뻜뻝뻞뻟뻠뻡뻢뻣뻤뻥뻦뻧뻨뻩뻪뻫뻬"),
             Chars("뻭뻮뻯뻰뻱뻲뻳뻴뻵뻶뻷뻸뻹뻺뻻뻼뻽뻾뻿뾀뾁뾂뾃뾄뾅뾆뾇뾈뾉뾊뾋뾌뾍뾎뾏뾐뾑뾒뾓뾔뾕뾖뾗뾘뾙뾚뾛뾜뾝뾞뾟뾠뾡뾢뾣뾤뾥뾦뾧뾨뾩뾪뾫뾬"),
             Chars("뾭뾮뾯뾰뾱뾲뾳뾴뾵뾶뾷뾸뾹뾺뾻뾼뾽뾾뾿뿀뿁뿂뿃뿄뿅뿆뿇뿈뿉뿊뿋뿌뿍뿎뿏뿐뿑뿒뿓뿔뿕뿖뿗뿘뿙뿚뿛뿜뿝뿞뿟뿠뿡뿢뿣뿤뿥뿦뿧뿨뿩뿪뿫뿬"),
             Chars("뿭뿮뿯뿰뿱뿲뿳뿴뿵뿶뿷뿸뿹뿺뿻뿼뿽뿾뿿삀삁삂삃삄삅삆삇삈삉삊삋삌삍삎삏삐삑삒삓삔삕삖삗삘삙삚삛삜삝삞삟삠삡삢삣삤삥삦삧삨삩삪삫사"),
             Chars("삭삮삯산삱삲삳살삵삶삷삸삹삺삻삼삽삾삿샀상샂샃샄샅샆샇새색샊샋샌샍샎샏샐샑샒샓샔샕샖샗샘샙샚샛샜생샞샟샠샡샢샣샤샥샦샧샨샩샪샫샬"),
             Chars("샭샮샯샰샱샲샳샴샵샶샷샸샹샺샻샼샽샾샿솀솁솂솃솄솅솆솇솈솉솊솋소속솎솏손솑솒솓솔솕솖솗솘솙솚솛솜솝솞솟솠송솢솣솤솥솦솧솨솩솪솫솬"),
             Chars("솭솮솯솰솱솲솳솴솵솶솷솸솹솺솻솼솽솾솿쇀쇁쇂쇃쇄쇅쇆쇇쇈쇉쇊쇋쇌쇍쇎쇏쇐쇑쇒쇓쇔쇕쇖쇗쇘쇙쇚쇛쇜쇝쇞쇟쇠쇡쇢쇣쇤쇥쇦쇧쇨쇩쇪쇫쇬"),
             Chars("쇭쇮쇯쇰쇱쇲쇳쇴쇵쇶쇷쇸쇹쇺쇻쇼쇽쇾쇿슀슁슂슃슄슅슆슇슈슉슊슋슌슍슎슏슐슑슒슓슔슕슖슗슘슙슚슛슜슝슞슟슠슡슢슣스슥슦슧슨슩슪슫슬"),
             Chars("슭슮슯슰슱슲슳슴습슶슷슸승슺슻슼슽슾슿싀싁싂싃싄싅싆싇싈싉싊싋싌싍싎싏싐싑싒싓싔싕싖싗싘싙싚싛시식싞싟신싡싢싣실싥싦싧싨싩싪싫심"),
             Chars("십싮싯싰싱싲싳싴싵싶싷싸싹싺싻싼싽싾싿쎀쎁쎂쎃쎄쎅쎆쎇쎈쎉쎊쎋쎌쎍쎎쎏쎐쎑쎒쎓쎔쎕쎖쎗쎘쎙쎚쎛쎜쎝쎞쎟쎠쎡쎢쎣쎤쎥쎦쎧쎨쎩쎪쎫쎬"),
             Chars("쎭쎮쎯쎰쎱쎲쎳쎴쎵쎶쎷쎸쎹쎺쎻쎼쎽쎾쎿쏀쏁쏂쏃쏄쏅쏆쏇쏈쏉쏊쏋쏌쏍쏎쏏쏐쏑쏒쏓쏔쏕쏖쏗쏘쏙쏚쏛쏜쏝쏞쏟쏠쏡쏢쏣쏤쏥쏦쏧쏨쏩쏪쏫쏬"),
             Chars("쏭쏮쏯쏰쏱쏲쏳쏴쏵쏶쏷쏸쏹쏺쏻쏼쏽쏾쏿쒀쒁쒂쒃쒄쒅쒆쒇쒈쒉쒊쒋쒌쒍쒎쒏쒐쒑쒒쒓쒔쒕쒖쒗쒘쒙쒚쒛쒜쒝쒞쒟쒠쒡쒢쒣쒤쒥쒦쒧쒨쒩쒪쒫쒬"),
             Chars("쒭쒮쒯쒰쒱쒲쒳쒴쒵쒶쒷쒸쒹쒺쒻쒼쒽쒾쒿쓀쓁쓂쓃쓄쓅쓆쓇쓈쓉쓊쓋쓌쓍쓎쓏쓐쓑쓒쓓쓔쓕쓖쓗쓘쓙쓚쓛쓜쓝쓞쓟쓠쓡쓢쓣쓤쓥쓦쓧쓨쓩쓪쓫쓬"),
             Chars("쓭쓮쓯쓰쓱쓲쓳쓴쓵쓶쓷쓸쓹쓺쓻쓼쓽쓾쓿얀얁얂얃얄얅얆얇얈얉얊얋얌얍얎얏얐양얒얓얔얕얖얗얘얙얚얛얜얝얞얟얠얡얢얣얤얥얦얧얨얩얪얫얬"),
             Chars("얭얮얯얰얱얲얳어억얶얷언얹얺얻얼얽얾얿엀엁엂엃엄업없엇었엉엊엋엌엍엎엏에엑엒엓엔엕엖엗엘엙엚엛엜엝엞엟엠엡엢엣엤엥엦엧엨엩엪엫여"),
             Chars("역엮엯연엱엲엳열엵엶엷엸엹엺엻염엽엾엿욀욁욂욃욄욅욆욇욈욉욊욋욌욍욎욏욐욑욒욓요욕욖욗욘욙욚욛욜욝욞욟욠욡욢욣욤욥욦욧욨용욪욫욬"),
             Chars("욭욮욯우욱욲욳운욵욶욷울욹욺욻욼욽욾욿움웁웂웃웄웅웆웇웈웉웊웋워웍웎웏원웑웒웓월웕웖웗웘웙웚웛웜웝웞웟웠웡웢웣웤웥웦웧웨웩웪웫웬"),
             Chars("웭웮웯웰웱웲웳웴웵웶웷웸웹웺웻웼웽웾웿잀잁잂잃임입잆잇있잉잊잋잌잍잎잏자작잒잓잔잕잖잗잘잙잚잛잜잝잞잟잠잡잢잣잤장잦잧잨잩잪잫재"),
             Chars("잭잮잯잰잱잲잳잴잵잶잷잸잹잺잻잼잽잾잿쟀쟁쟂쟃쟄쟅쟆쟇쟈쟉쟊쟋쟌쟍쟎쟏쟐쟑쟒쟓쟔쟕쟖쟗쟘쟙쟚쟛쟜쟝쟞쟟쟠쟡쟢쟣쟤쟥쟦쟧쟨쟩쟪쟫쟬"),
             Chars("쟭쟮쟯쟰쟱쟲쟳쟴쟵쟶쟷쟸쟹쟺쟻쟼쟽쟾쟿좀좁좂좃좄종좆좇좈좉좊좋좌좍좎좏좐좑좒좓좔좕좖좗좘좙좚좛좜좝좞좟좠좡좢좣좤좥좦좧좨좩좪좫좬"),
             Chars("좭좮좯좰좱좲좳좴좵좶좷좸좹좺좻좼좽좾좿죀죁죂죃죄죅죆죇죈죉죊죋죌죍죎죏죐죑죒죓죔죕죖죗죘죙죚죛죜죝죞죟죠죡죢죣죤죥죦죧죨죩죪죫죬"),
             Chars("죭죮죯죰죱죲죳죴죵죶죷죸죹죺죻주죽죾죿즀즁즂즃즄즅즆즇즈즉즊즋즌즍즎즏즐즑즒즓즔즕즖즗즘즙즚즛즜증즞즟즠즡즢즣즤즥즦즧즨즩즪즫즬"),
             Chars("즭즮즯즰즱즲즳즴즵즶즷즸즹즺즻즼즽즾즿지직짂짃진짅짆짇질짉짊짋짌짍짎짏짐집짒짓짔징짖짗짘짙짚짛짜짝짞짟짠짡짢짣짤짥짦짧짨짩짪짫짬"),
             Chars("짭짮짯짰짱짲짳짴짵짶짷째짹짺짻짼짽짾짿쪀쪁쪂쪃쪄쪅쪆쪇쪈쪉쪊쪋쪌쪍쪎쪏쪐쪑쪒쪓쪔쪕쪖쪗쪘쪙쪚쪛쪜쪝쪞쪟쪠쪡쪢쪣쪤쪥쪦쪧쪨쪩쪪쪫쪬"),
             Chars("쪭쪮쪯쪰쪱쪲쪳쪴쪵쪶쪷쪸쪹쪺쪻쪼쪽쪾쪿쫀쫁쫂쫃쫄쫅쫆쫇쫈쫉쫊쫋쫌쫍쫎쫏쫐쫑쫒쫓쫔쫕쫖쫗쫘쫙쫚쫛쫜쫝쫞쫟쫠쫡쫢쫣쫤쫥쫦쫧쫨쫩쫪쫫쫬"),
             Chars("쫭쫮쫯쫰쫱쫲쫳쫴쫵쫶쫷쫸쫹쫺쫻쫼쫽쫾쫿쮀쮁쮂쮃쮄쮅쮆쮇쮈쮉쮊쮋쮌쮍쮎쮏쮐쮑쮒쮓쮔쮕쮖쮗쮘쮙쮚쮛쮜쮝쮞쮟쮠쮡쮢쮣쮤쮥쮦쮧쮨쮩쮪쮫쮬"),
             Chars("쮭쮮쮯쮰쮱쮲쮳쮴쮵쮶쮷쮸쮹쮺쮻쮼쮽쮾쮿쯀쯁쯂쯃쯄쯅쯆쯇쯈쯉쯊쯋쯌쯍쯎쯏쯐쯑쯒쯓쯔쯕쯖쯗쯘쯙쯚쯛쯜쯝쯞쯟쯠쯡쯢쯣쯤쯥쯦쯧쯨쯩쯪쯫쯬"),
             Chars("쯭쯮쯯쯰쯱쯲쯳쯴쯵쯶쯷쯸쯹쯺쯻쯼쯽쯾쯿첀첁첂첃첄첅첆첇첈첉첊첋첌첍첎첏첐첑첒첓첔첕첖첗처척첚첛천첝첞첟철첡첢첣첤첥첦첧첨첩첪첫첬"),
             Chars("청첮첯첰첱첲첳체첵첶첷첸첹첺첻첼첽첾첿쳀쳁쳂쳃쳄쳅쳆쳇쳈쳉쳊쳋쳌쳍쳎쳏쳐쳑쳒쳓쳔쳕쳖쳗쳘쳙쳚쳛쳜쳝쳞쳟쳠쳡쳢쳣쳤쳥쳦쳧쳨쳩쳪쳫쳬"),
             Chars("쳭쳮쳯쳰쳱쳲쳳쳴쳵쳶쳷쳸쳹쳺쳻쳼쳽쳾쳿춀춁춂춃춄춅춆춇춈춉춊춋춌춍춎춏춐춑춒춓추축춖춗춘춙춚춛출춝춞춟춠춡춢춣춤춥춦춧춨충춪춫춬"),
             Chars("춭춮춯춰춱춲춳춴춵춶춷춸춹춺춻춼춽춾춿췀췁췂췃췄췅췆췇췈췉췊췋췌췍췎췏췐췑췒췓췔췕췖췗췘췙췚췛췜췝췞췟췠췡췢췣췤췥췦췧취췩췪췫췬"),
             Chars("췭췮췯췰췱췲췳췴췵췶췷췸췹췺췻췼췽췾췿캀캁캂캃캄캅캆캇캈캉캊캋캌캍캎캏캐캑캒캓캔캕캖캗캘캙캚캛캜캝캞캟캠캡캢캣캤캥캦캧캨캩캪캫캬"),
             Chars("캭캮캯캰캱캲캳캴캵캶캷캸캹캺캻캼캽캾캿컀컁컂컃컄컅컆컇컈컉컊컋컌컍컎컏컐컑컒컓컔컕컖컗컘컙컚컛컜컝컞컟컠컡컢컣커컥컦컧컨컩컪컫컬"),
             Chars("컭컮컯컰컱컲컳컴컵컶컷컸컹컺컻컼컽컾컿쾀쾁쾂쾃쾄쾅쾆쾇쾈쾉쾊쾋쾌쾍쾎쾏쾐쾑쾒쾓쾔쾕쾖쾗쾘쾙쾚쾛쾜쾝쾞쾟쾠쾡쾢쾣쾤쾥쾦쾧쾨쾩쾪쾫쾬"),
             Chars("쾭쾮쾯쾰쾱쾲쾳쾴쾵쾶쾷쾸쾹쾺쾻쾼쾽쾾쾿쿀쿁쿂쿃쿄쿅쿆쿇쿈쿉쿊쿋쿌쿍쿎쿏쿐쿑쿒쿓쿔쿕쿖쿗쿘쿙쿚쿛쿜쿝쿞쿟쿠쿡쿢쿣쿤쿥쿦쿧쿨쿩쿪쿫쿬"),
             Chars("쿭쿮쿯쿰쿱쿲쿳쿴쿵쿶쿷쿸쿹쿺쿻쿼쿽쿾쿿킀킁킂킃킄킅킆킇킈킉킊킋킌킍킎킏킐킑킒킓킔킕킖킗킘킙킚킛킜킝킞킟킠킡킢킣키킥킦킧킨킩킪킫킬"),
             Chars("킭킮킯킰킱킲킳킴킵킶킷킸킹킺킻킼킽킾킿타탁탂탃탄탅탆탇탈탉탊탋탌탍탎탏탐탑탒탓탔탕탖탗탘탙탚탛태택탞탟탠탡탢탣탤탥탦탧탨탩탪탫탬"),
             Chars("탭탮탯탰탱탲탳탴탵탶탷탸탹탺탻탼탽탾탿톀톁톂톃톄톅톆톇톈톉톊톋톌톍톎톏톐톑톒톓톔톕톖톗톘톙톚톛톜톝톞톟토톡톢톣톤톥톦톧톨톩톪톫톬"),
             Chars("톭톮톯톰톱톲톳톴통톶톷톸톹톺톻톼톽톾톿퇀퇁퇂퇃퇄퇅퇆퇇퇈퇉퇊퇋퇌퇍퇎퇏퇐퇑퇒퇓퇔퇕퇖퇗퇘퇙퇚퇛퇜퇝퇞퇟퇠퇡퇢퇣퇤퇥퇦퇧퇨퇩퇪퇫퇬"),
             Chars("퇭퇮퇯퇰퇱퇲퇳퇴퇵퇶퇷퇸퇹퇺퇻퇼퇽퇾퇿튀튁튂튃튄튅튆튇튈튉튊튋튌튍튎튏튐튑튒튓튔튕튖튗튘튙튚튛튜튝튞튟튠튡튢튣튤튥튦튧튨튩튪튫튬"),
             Chars("튭튮튯튰튱튲튳튴튵튶튷트특튺튻튼튽튾튿틀틁틂틃틄틅틆틇틈틉틊틋틌틍틎틏틐틑틒틓틔틕틖틗틘틙틚틛틜틝틞틟틠틡틢틣틤틥틦틧틨틩틪틫틬"),
             Chars("틭틮틯티틱틲틳틴틵틶틷틸틹틺틻틼틽틾틿펀펁펂펃펄펅펆펇펈펉펊펋펌펍펎펏펐펑펒펓펔펕펖펗페펙펚펛펜펝펞펟펠펡펢펣펤펥펦펧펨펩펪펫펬"),
             Chars("펭펮펯펰펱펲펳펴펵펶펷편펹펺펻펼펽펾펿폀폁폂폃폄폅폆폇폈평폊폋폌폍폎폏폐폑폒폓폔폕폖폗폘폙폚폛폜폝폞폟폠폡폢폣폤폥폦폧폨폩폪폫포"),
             Chars("폭폮폯폰폱폲폳폴폵폶폷폸폹폺폻폼폽폾폿풀풁풂풃풄풅풆풇품풉풊풋풌풍풎풏풐풑풒풓풔풕풖풗풘풙풚풛풜풝풞풟풠풡풢풣풤풥풦풧풨풩풪풫풬"),
             Chars("풭풮풯풰풱풲풳풴풵풶풷풸풹풺풻풼풽풾풿퓀퓁퓂퓃퓄퓅퓆퓇퓈퓉퓊퓋퓌퓍퓎퓏퓐퓑퓒퓓퓔퓕퓖퓗퓘퓙퓚퓛퓜퓝퓞퓟퓠퓡퓢퓣퓤퓥퓦퓧퓨퓩퓪퓫퓬"),
             Chars("퓭퓮퓯퓰퓱퓲퓳퓴퓵퓶퓷퓸퓹퓺퓻퓼퓽퓾퓿햀햁햂햃햄햅햆햇했행햊햋햌햍햎햏햐햑햒햓햔햕햖햗햘햙햚햛햜햝햞햟햠햡햢햣햤향햦햧햨햩햪햫햬"),
             Chars("햭햮햯햰햱햲햳햴햵햶햷햸햹햺햻햼햽햾햿헀헁헂헃헄헅헆헇허헉헊헋헌헍헎헏헐헑헒헓헔헕헖헗험헙헚헛헜헝헞헟헠헡헢헣헤헥헦헧헨헩헪헫헬"),
             Chars("헭헮헯헰헱헲헳헴헵헶헷헸헹헺헻헼헽헾헿횀횁횂횃횄횅횆횇횈횉횊횋회획횎횏횐횑횒횓횔횕횖횗횘횙횚횛횜횝횞횟횠횡횢횣횤횥횦횧효횩횪횫횬"),
             Chars("횭횮횯횰횱횲횳횴횵횶횷횸횹횺횻횼횽횾횿훀훁훂훃후훅훆훇훈훉훊훋훌훍훎훏훐훑훒훓훔훕훖훗훘훙훚훛훜훝훞훟훠훡훢훣훤훥훦훧훨훩훪훫훬"),
             Chars("훭훮훯훰훱훲훳훴훵훶훷훸훹훺훻훼훽훾훿힀힁힂힃힄힅힆힇히힉힊힋힌힍힎힏힐힑힒힓힔힕힖힗힘힙힚힛힜힝힞힟힠힡힢힣ힰힱힲힳힴힵힶힷힸ"),
             Chars("ힹힺힻힼힽힾힿퟀퟁퟂퟃퟄퟅퟆퟋퟌퟍퟎퟏퟐퟑퟒퟓퟔퟕퟖퟗퟘퟙퟚퟛퟜퟝퟞퟟퟠퟡퟢퟣퟤퟥퟦퟧퟨퟩퟪퟫퟬퟭퟮퟯퟰퟱퟲퟳퟴퟵퟶퟷퟸퟹퟺퟻ呂"),
             Chars("女廬旅濾礪閭驪麗黎力曆歷轢年憐戀撚漣煉璉秊練聯輦蓮連鍊列劣咽烈裂說廉念捻殮簾獵令囹寧嶺怜玲瑩羚聆鈴零靈領例禮醴隸惡了僚寮尿料樂燎"),
             Chars("療蓼遼龍暈阮劉杻柳流溜琉留硫紐類六戮陸倫崙淪輪律慄栗率隆利吏履易李梨泥理痢罹裏裡里離匿溺吝燐璘藺隣鱗麟林淋臨立笠粒狀炙識什茶刺婢"),
             Chars("嬨廒廙彩徭惘慎愈憎慠懲戴揄搜摒敖晴朗望杖歹殺流滛滋漢瀞煮瞧爵犯猪瑱甆画瘝瘟益盛直睊着磌窱節类絛練缾者荒華蝹襁覆視調諸請謁諾諭謹變"),
             Chars("贈輸遲醙鉶陼難靖韛響頋頻鬒龜𢡊𢡄𣏕㮝䀘䀹𥉉𥳐𧻓齃龎ﮀﮁﮂﮃﮄﮅﮆﮇﮈﮉﮊﮋﮌﮍﮎﮏﮐﮑﮒﮓﮔﮕﮖﮗﮘﮙﮚﮛﮜﮝﮞﮟﮠﮡﮢﮣﮤﮥﮦ"),
             Chars("ﮧﮨﮩﮪﮫﮬﮭﮮﮯﮰﮱﯓﯔﯕﯖﯗﯘﯙﯚﯛﯜﯝﯞﯟﯠﯡﯢﯣﯤﯥﯦﯧﯨﯩﯪﯫﯬﯭﯮﯯﯰﯱﯲﯳﯴﯵﯶﯷﯸﯹﯺﯻﯼﯽﯾﯿﲀﲁﲂﲃﲄﲅﲆﲇ"),
             Chars("ﲈﲉﲊﲋﲌﲍﲎﲏﲐﲑﲒﲓﲔﲕﲖﲗﲘﲙﲚﲛﲜﲝﲞﲟﲠﲡﲢﲣﲤﲥﲦﲧﲨﲩﲪﲫﲬﲭﲮﲯﲰﲱﲲﲳﲴﲵﲶﲷﲸﲹﲺﲻﲼﲽﲾﲿﳀﳁﳂﳃﳄﳅﳆﳇ"),
             Chars("ﳈﳉﳊﳋﳌﳍﳎﳏﳐﳑﳒﳓﳔﳕﳖﳗﳘﳙﳚﳛﳜﳝﳞﳟﳠﳡﳢﳣﳤﳥﳦﳧﳨﳩﳪﳫﳬﳭﳮﳯﳰﳱﳲﳳﳴﳵﳶﳷﳸﳹﳺﳻﳼﳽﳾﳿﶀﶁﶂﶃﶄﶅﶆﶇ"),
             Chars("ﶈﶉﶊﶋﶌﶍﶎﶏﶒﶓﶔﶕﶖﶗﶘﶙﶚﶛﶜﶝﶞﶟﶠﶡﶢﶣﶤﶥﶦﶧﶨﶩﶪﶫﶬﶭﶮﶯﶰﶱﶲﶳﶴﶵﶶﶷﶸﶹﶺﶻﶼﶽﶾﶿﷀﷁﷂﷃﷄﷅﷆﷇﷰﷱ"),
             Chars("ﷲﷳﷴﷵﷶﷷﷸﷹﷺﷻﺀﺁﺂﺃﺄﺅﺆﺇﺈﺉﺊﺋﺌﺍﺎﺏﺐﺑﺒﺓﺔﺕﺖﺗﺘﺙﺚﺛﺜﺝﺞﺟﺠﺡﺢﺣﺤﺥﺦﺧﺨﺩﺪﺫﺬﺭﺮﺯﺰﺱﺲﺳﺴﺵ"),
             Chars("ﺶﺷﺸﺹﺺﺻﺼﺽﺾﺿﻀﻁﻂﻃﻄﻅﻆﻇﻈﻉﻊﻋﻌﻍﻎﻏﻐﻑﻒﻓﻔﻕﻖﻗﻘﻙﻚﻛﻜﻝﻞﻟﻠﻡﻢﻣﻤﻥﻦﻧﻨﻩﻪﻫﻬﻭﻮﻯﻰﻱﻲﻳﻴﻵ"),
             Chars("ﻶﻷﻸﻹﻺﻻﻼﾀﾁﾂﾃﾄﾅﾆﾇﾈﾉﾊﾋﾌﾍﾎﾏﾐﾑﾒﾓﾔﾕﾖﾗﾘﾙﾚﾛﾜﾝﾞﾟﾠﾡﾢﾣﾤﾥﾦﾧﾨﾩﾪﾫﾬﾭﾮﾯﾰﾱﾲﾳﾴﾵﾶﾷﾸ"),
             Chars("ﾹﾺﾻﾼﾽﾾￂￃￄￅￆￇￊￋￌￍￎￏￒￓￔￕￖￗￚￛￜ")>>)

\* str.lower() of one character: UpperChars[i] lowers to LowerChars[i].  The
\* last 93 characters of UpperChars lower to a character no TLA+ string
\* holds, which is written "U+" and its code point; EscapedTo lists these
\* code points, four hexadecimal digits each.
EscapedTo == "02530254025602570259025B0260026302690268026F02720275037B037C037D2D002D012D022D032D042D052D062D072D082D092D0A2D0B2D0C2D0D2D0E2D0F2D102D112D122D132D142D152D162D172D182D192D1A2D1B2D1C2D1D2D1E2D1F2D202D212D222D232D242D252D272D2DAB70AB71AB72AB73AB74AB75AB76AB77AB78AB79AB7AAB7BAB7CAB7DAB7EAB7F1F701F711F721F731F741F751F761F771F7A1F7B1F781F791F7C1F7D02650266025C0261026C026AAB53"
UpperChars ==
    Flatten(<<Chars("ABCDEFGHIJKLMNOPQRSTUVWXYZÀÁÂÃÄÅÆÇÈÉÊËÌÍÎÏÐÑÒÓÔÕÖØÙÚÛÜÝÞƂƄƇƋƎƑƘƠƢƤƦƧƩƬƮƯƱƲƳƵƷƸƼǄǅǇǈǊǋǍǏǑǓǕǗǙǛǞǠǢǤǦǨǪǬǮǱǲǴǶǷǸǺǼǾΆΈΉΊΌΎΏΑΒΓΔΕΖΗΘΙΚ"),
              Chars("ΛΜΝΞΟΠΡΣΤΥΦΧΨΩΪΫϏϘϚϜϞϠϢϤϦϨϪϬϮϴϷϹϺҀҊҌҎҐҒҔҖҘҚҜҞҠҢҤҦҨҪҬҮҰҲҴҶҸҺҼҾӀӁӃӅӇӉӋӍӐӒӔӖӘӚӜӞӠӢӤӦӨӪӬӮӰӲӴӶӸӺӼӾᎰᎱᎲᎳᎴᎵᎶᎷᎸᎹᎺᎻᎼᎽᎾᎿᏀᏁᏂᏃᏄᏅᏆᏇᏈᏉᏊᏋᏌᏍᏎᏏᏐᏑᏒ"),
              Chars("ᏓᏔᏕᏖᏗᏘᏙᏚᏛᏜᏝᏞᏟᏠᏡᏢᏣᏤᏥᏦᏧᏨᏩᏪᏫᏬᏭᏮᏯᏰᏱᏲᏳᏴᏵᲐᲑᲒᲓᲔᲕᲖᲗᲘᲙᲚᲛᲜᲝᲞᲟᲠᲡᲢᲣᲤᲥᲦᲧᲨᲩᲪᲫᲬᲭᲮᲯᲰᲱᲲᲳᲴᲵᲶᲷᲸᲹᲺᲽᲾᲿẀẂẄẆẈẊẌẎẐẒẔẞẠẢẤẦẨẪẬẮẰẲẴẶẸẺẼẾỀỂỄỆỈỊỌỎỐỒỔỖỘỚỜỞỠỢỤ"),
              Chars("ỦỨỪỬỮỰỲỴỶỸỺỼỾᾈᾉᾊᾋᾌᾍᾎᾏᾘᾙᾚᾛᾜᾝᾞᾟᾨᾩᾪᾫᾬᾭᾮᾯᾸᾹᾼῌῘῙῨῩῬῼↃⒶⒷⒸⒹⒺⒻⒼⒽⒾⒿⓀⓁⓂⓃⓄⓅⓆⓇⓈⓉⓊⓋⓌⓍⓎⓏⲀⲂⲄⲆⲈⲊⲌⲎⲐⲒⲔⲖⲘⲚⲜⲞⲠⲢⲤⲦⲨⲪⲬⲮⲰⲲⲴⲶⲸⲺⲼⲾⳀⳂⳄⳆⳈⳊⳌⳎⳐⳒⳔⳖⳘⳚⳜⳞⳠⳢⳫⳭⳲꚀ"),
              Chars("ꚂꚄꚆꚈꚊꚌꚎꚐꚒꚔꚖꚘꚚꞀꞂꞄꞆꞋꞐꞒꞖꞘꞚꞜꞞꞠꞢꞤꞦꞨꞰꞱꞲꞴꞶꞸꞺꞼꞾꟀꟂꟄꟅꟆꟇꟉꟐꟖꟘꟵƁƆƉƊƏƐƓƔƖƗƜƝƟϽϾϿႠႡႢႣႤႥႦႧႨႩႪႫႬႭႮႯႰႱႲႳႴႵႶႷႸႹႺႻႼႽႾႿჀჁჂჃჄჅჇჍᎠᎡᎢᎣᎤᎥᎦᎧᎨᎩᎪᎫᎬᎭᎮᎯᾺΆῈΈῊΉ"),
              Chars("ῚΊῪΎῸΌῺΏꞍꞪꞫꞬꞭꞮꞳ")>>)
LowerChars ==
    Flatten(<<Chars("abcdefghijklmnopqrstuvwxyzàáâãäåæçèéêëìíîïðñòóôõöøùúûüýþƃƅƈƌǝƒƙơƣƥʀƨʃƭʈưʊʋƴƶʒƹƽǆǆǉǉǌǌǎǐǒǔǖǘǚǜǟǡǣǥǧǩǫǭǯǳǳǵƕƿǹǻǽǿάέήίόύώαβγδεζηθικ"),
              Chars("λμνξοπρστυφχψωϊϋϗϙϛϝϟϡϣϥϧϩϫϭϯθϸϲϻҁҋҍҏґғҕҗҙқҝҟҡңҥҧҩҫҭүұҳҵҷҹһҽҿӏӂӄӆӈӊӌӎӑӓӕӗәӛӝӟӡӣӥӧөӫӭӯӱӳӵӷӹӻӽӿꮀꮁꮂꮃꮄꮅꮆꮇꮈꮉꮊꮋꮌꮍꮎꮏꮐꮑꮒꮓꮔꮕꮖꮗꮘꮙꮚꮛꮜꮝꮞꮟꮠꮡꮢ"),
              Chars("ꮣꮤꮥꮦꮧꮨꮩꮪꮫꮬꮭꮮꮯꮰꮱꮲꮳꮴꮵꮶꮷꮸꮹꮺꮻꮼꮽꮾꮿᏸᏹᏺᏻᏼᏽაბგდევზთიკლმნოპჟრსტუფქღყშჩცძწჭხჯჰჱჲჳჴჵჶჷჸჹჺჽჾჿẁẃẅẇẉẋẍẏẑẓẕßạảấầẩẫậắằẳẵặẹẻẽếềểễệỉịọỏốồổỗộớờởỡợụ"),
              Chars("ủứừửữựỳỵỷỹỻỽỿᾀᾁᾂᾃᾄᾅᾆᾇᾐᾑᾒᾓᾔᾕᾖᾗᾠᾡᾢᾣᾤᾥᾦᾧᾰᾱᾳῃῐῑῠῡῥῳↄⓐⓑⓒⓓⓔⓕⓖⓗⓘⓙⓚⓛⓜⓝⓞⓟⓠⓡⓢⓣⓤⓥⓦⓧⓨⓩⲁⲃⲅⲇⲉⲋⲍⲏⲑⲓⲕⲗⲙⲛⲝⲟⲡⲣⲥⲧⲩⲫⲭⲯⲱⲳⲵⲷⲹⲻⲽⲿⳁⳃⳅⳇⳉⳋⳍⳏⳑⳓⳕⳗⳙⳛⳝⳟⳡⳣⳬⳮⳳꚁ"),
              Chars("ꚃꚅꚇꚉꚋꚍꚏꚑꚓꚕꚗꚙꚛꞁꞃꞅꞇꞌꞑꞓꞗꞙꞛꞝꞟꞡꞣꞥꞧꞩʞʇʝꞵꞷꞹꞻꞽꞿꟁꟃꞔʂᶎꟈꟊꟑꟗꟙꟶ")>>)
    \o [i \in 1..93 |-> "U+" \o SubSeq(EscapedTo, 4 * i - 3, 4 * i)]
LowerOf ==
    [c \in Range(UpperChars) |-> LowerChars[CHOOSE i \in DOMAIN UpperChars : UpperChars[i] = c]]
UpperOf == [c \in Range(LowerAlpha) |->
              UpperAlpha[CHOOSE i \in DOMAIN LowerAlpha : LowerAlpha[i] = c]]

lower_char(c) == IF c \in DOMAIN LowerOf THEN LowerOf[c] ELSE c
upper_char(c) == IF c \in DOMAIN UpperOf THEN UpperOf[c] ELSE c

\* The characters str.lower() skips when it looks for the letter before and
\* after a capital sigma (case-ignorable), and the cased characters among
\* the others.
CaseIgnorable ==
    CharsOf(<<Chars("'.:^¨­¯´·¸ʰʱʲʳʴʵʶʷʸʹʺʻʼʽʾʿˀˁ˂˃˄˅ˆˇˈˉˊˋˌˍˎˏːˑ˒˓˔˕˖˗˘˙˚˛˜˝˞˟ˠˡˢˣˤ˥˦˧˨˩˪˫ˬ˭ˮ˯˰˱˲˳˴˵˶˷˸˹˺˻˼˽˾˿΄΅·҃҄҅҆҇҈҉֑֖֛֢֣֤֥֦֧֪֚֒֓֔֕֗֘֙֜֝֞֟֠֡֨֩֫֬"),
              Chars("ְֱֲֳִֵֶַָׇֹֺֻּֽֿׁׂׅ֭֮֯ׄ״ۖۗۘۙۚۛۜ۝ۣ۟۠ۡۢۤۥۦ۪ۭۧۨ۫۬ަާިީުޫެޭޮޯް߲߫߬߭߮߯߰߱߳ߴߵߺ߽࢈࢐࢑࢙࢚࢛࢘࢜࢝࢞࢟ࣉ࣏࣐࣑࣒࣓࣊࣋࣌࣍࣎ࣔࣕࣖࣗࣘࣙࣚࣛࣜࣝࣞࣟ࣠࣡࣢ࣰࣱࣲࣣࣦࣩ࣭࣮࣯ࣶࣤࣥࣧࣨ࣪࣫࣬ࣳࣴࣵࣷ"),
              Chars("ࣹࣺࣸࣻࣼࣽࣾࣿঁ়ুূৃৄ্ৢৣ৾ઁં઼ુૂૃૄૅેૈ્ૢૣૺૻૼ૽૾૿ஂீ்ಁ಼ಿೆೌ್ೢೣඁ්ිීුූັິີຶື຺ຸູົຼໆ່້໊໋໌ໍ྄ཱྀྀྂྃ྆྇ྍྎྏྐྑྒྒྷྔྕྖྗྙྚྛྜྜྷྞྟྠྡྡྷྣྤྥྦྦྷྨྩྪྫྫྷྭྮྯྰྱྲླྴྵྶྷྸྐྵྺྻྼ࿆ႂႅ"),
              Chars("ႆႍႝჼ឴឵ិីឹឺុូួំ៉៊់៌៍៎៏័៑្៓ៗ៝ᢅᢆᢩᪧ᪵᪶᪷᪸᪹᪺᪽᪰᪱᪲᪳᪴᪻᪼᪾ᪿᫀ᫃᫄᫊᫁᫂᫅᫆᫇᫈᫉᫋ᫌᫍᫎᮀᮁᮢᮣᮤᮥᮨᮩ᮫ᮬᮭ᯦ᯨᯩᯭᯯᯰᯱ᳔᳢᳣᳤᳥᳦᳧᳨᳕᳖᳗᳘᳙᳜᳝᳞᳟᳭᳐᳑᳒᳚᳛᳠᳴᳸᳹ᶛᶜᶝᶞᶟᶠᶡᶢᶣᶤᶥᶦᶧᶨᶩᶪᶫᶬᶭᶮᶯ"),
              Chars("ᶰᶱᶲᶳᶴᶵᶶᶷᶸᶹᶺᶻᶼᶽᶾᶿ᷐᷎᷺᷂᷊᷏᷹᷽᷿᷷᷸᷀᷁᷃᷄᷅᷆᷇᷈᷉᷋᷌᷑᷒ᷓᷔᷕᷖᷗᷘᷙᷚᷛᷜᷝᷞᷟᷠᷡᷢᷣᷤᷥᷦᷧᷨᷩᷪᷫᷬᷭᷮᷯᷰᷱᷲᷳᷴ᷵᷻᷾᷶᷼᷍᾽᾿῀῁῍῎῏῝῞῟῭΅`´῾ₐₑₒₓₔₕₖₗₘₙₚₛₜ⃒⃓⃘⃙⃚⃐⃑⃔⃕⃖⃗⃛⃜⃝⃞⃟⃠⃡⃢⃣"),
              Chars("⃤⃥⃦⃪⃫゙゚⃨⃬⃭⃮⃯⃧⃩⃰⳯⳰⳱ⷠⷡⷢⷣⷤⷥⷦⷧⷨⷩⷪⷫⷬⷭⷮⷯⷰⷱⷲⷳⷴⷵⷶⷷⷸⷹⷺⷻⷼⷽⷾⷿ゛゜ゝゞーヽヾꓸꓹꓺꓻꓼꓽꚜꚝꚞꚟ꛰꛱ꞈ꞉꞊ꟲꟳꟴꟸꟹ꣄ꣅ꣠꣡꣢꣣꣤꣥꣦꣧꣨꣩꣪꣫꣬꣭꣮꣯꣰꣱ꣿꦀꦁꦂ꦳ꦶꦷꦸꦹꦼꦽꧏꧥꧦꪴꪰꪲꪳꪷꪸꪾ꪿꫁ꫝꫬꫭꫳꫴ꫶ꯥꯨ"),
              Chars("꯭﮲﮳﮴﮵﮶﮷﮸﮹﮺﮻﮼﮽﮾﮿﯀﯁﯂﻿ﾞﾟ￣￹￺￻")>>)
Cased ==
    CharsOf(<<Chars("ABCDEFGHIJKLMNOPQRSTUVWXYZabcdefghijklmnopqrstuvwxyzªµºÀÁÂÃÄÅÆÇÈÉÊËÌÍÎÏÐÑÒÓÔÕÖØÙÚÛÜÝÞßàáâãäåæçèéêëìíîïðñòóôõöøùúûüýþÿƀƁƂƃƄƅƆƇƈƉƊ"),
              Chars("ƋƌƍƎƏƐƑƒƓƔƕƖƗƘƙƚƛƜƝƞƟƠơƢƣƤƥƦƧƨƩƪƫƬƭƮƯưƱƲƳƴƵƶƷƸƹƺƼƽƾƿǄǅǆǇǈǉǊǋǌǍǎǏǐǑǒǓǔǕǖǗǘǙǚǛǜǝǞǟǠǡǢǣǤǥǦǧǨǩǪǫǬǭǮǯǰǱǲǳǴǵǶǷǸǹǺǻǼǽǾǿʀʁʂʃʄʅʆʇʈʉʊʋʌʍʎʏ"),
              Chars("ʐʑʒʓʕʖʗʘʙʚʛʜʝʞʟʠʡʢʣʤʥʦʧʨʩʪʫʬʭʮʯΆΈΉΊΌΎΏΐΑΒΓΔΕΖΗΘΙΚΛΜΝΞΟΠΡΣΤΥΦΧΨΩΪΫάέήίΰαβγδεζηθικλμνξοπρςστυφχψωϊϋόύώϏϐϑϒϓϔϕϖϗϘϙϚϛϜϝϞϟϠϡϢϣϤϥϦϧϨϩϪ"),
              Chars("ϫϬϭϮϯϰϱϲϳϴϵϷϸϹϺϻϼϽϾϿҀҁҊҋҌҍҎҏҐґҒғҔҕҖҗҘҙҚқҜҝҞҟҠҡҢңҤҥҦҧҨҩҪҫҬҭҮүҰұҲҳҴҵҶҷҸҹҺһҼҽҾҿӀӁӂӃӄӅӆӇӈӉӊӋӌӍӎӏӐӑӒӓӔӕӖӗӘәӚӛӜӝӞӟӠӡӢӣӤӥӦӧӨөӪӫӬӭӮӯӰӱӲӳ"),
              Chars("ӴӵӶӷӸӹӺӻӼӽӾӿրցւփքօֆևֈႠႡႢႣႤႥႦႧႨႩႪႫႬႭႮႯႰႱႲႳႴႵႶႷႸႹႺႻႼႽႾႿჀჁჂჃჄჅჇჍაბგდევზთიკლმნოპჟრსტუფქღყშჩცძწჭხჯჰჱჲჳჴჵჶჷჸჹჺჽჾჿᎠᎡᎢᎣᎤᎥᎦᎧᎨᎩᎪᎫᎬᎭᎮᎯᎰᎱᎲᎳᎴ"),
              Chars("ᎵᎶᎷᎸᎹᎺᎻᎼᎽᎾᎿᏀᏁᏂᏃᏄᏅᏆᏇᏈᏉᏊᏋᏌᏍᏎᏏᏐᏑᏒᏓᏔᏕᏖᏗᏘᏙᏚᏛᏜᏝᏞᏟᏠᏡᏢᏣᏤᏥᏦᏧᏨᏩᏪᏫᏬᏭᏮᏯᏰᏱᏲᏳᏴᏵᏸᏹᏺᏻᏼᏽᲀᲁᲂᲃᲄᲅᲆᲇᲈᲐᲑᲒᲓᲔᲕᲖᲗᲘᲙᲚᲛᲜᲝᲞᲟᲠᲡᲢᲣᲤᲥᲦᲧᲨᲩᲪᲫᲬᲭᲮᲯᲰᲱᲲᲳᲴᲵᲶᲷᲸᲹᲺᲽᲾᲿᶀᶁ"),
              Chars("ᶂᶃᶄᶅᶆᶇᶈᶉᶊᶋᶌᶍᶎᶏᶐᶑᶒᶓᶔᶕᶖᶗᶘᶙᶚẀẁẂẃẄẅẆẇẈẉẊẋẌẍẎẏẐẑẒẓẔẕẖẗẘẙẚẛẜẝẞẟẠạẢảẤấẦầẨẩẪẫẬậẮắẰằẲẳẴẵẶặẸẹẺẻẼẽẾếỀềỂểỄễỆệỈỉỊịỌọỎỏỐốỒồỔổỖỗỘộỚớỜờỞởỠỡỢợỤụỦ"),
              Chars("ủỨứỪừỬửỮữỰựỲỳỴỵỶỷỸỹỺỻỼỽỾỿᾀᾁᾂᾃᾄᾅᾆᾇᾈᾉᾊᾋᾌᾍᾎᾏᾐᾑᾒᾓᾔᾕᾖᾗᾘᾙᾚᾛᾜᾝᾞᾟᾠᾡᾢᾣᾤᾥᾦᾧᾨᾩᾪᾫᾬᾭᾮᾯᾰᾱᾲᾳᾴᾶᾷᾸᾹᾺΆᾼιῂῃῄῆῇῈΈῊΉῌῐῑῒΐῖῗῘῙῚΊῠῡῢΰῤῥῦῧῨῩῪΎῬῲῳῴῶῷῸΌῺΏ"),
              Chars("ῼↃↄⒶⒷⒸⒹⒺⒻⒼⒽⒾⒿⓀⓁⓂⓃⓄⓅⓆⓇⓈⓉⓊⓋⓌⓍⓎⓏⓐⓑⓒⓓⓔⓕⓖⓗⓘⓙⓚⓛⓜⓝⓞⓟⓠⓡⓢⓣⓤⓥⓦⓧⓨⓩⲀⲁⲂⲃⲄⲅⲆⲇⲈⲉⲊⲋⲌⲍⲎⲏⲐⲑⲒⲓⲔⲕⲖⲗⲘⲙⲚⲛⲜⲝⲞⲟⲠⲡⲢⲣⲤⲥⲦⲧⲨⲩⲪⲫⲬⲭⲮⲯⲰⲱⲲⲳⲴⲵⲶⲷⲸⲹⲺⲻⲼⲽⲾⲿⳀⳁⳂⳃⳄⳅⳆⳇⳈ"),
              Chars("ⳉⳊⳋⳌⳍⳎⳏⳐⳑⳒⳓⳔⳕⳖⳗⳘⳙⳚⳛⳜⳝⳞⳟⳠⳡⳢⳣⳤⳫⳬⳭⳮⳲⳳꚀꚁꚂꚃꚄꚅꚆꚇꚈꚉꚊꚋꚌꚍꚎꚏꚐꚑꚒꚓꚔꚕꚖꚗꚘꚙꚚꚛꞀꞁꞂꞃꞄꞅꞆꞇꞋꞌꞍꞎꞐꞑꞒꞓꞔꞕꞖꞗꞘꞙꞚꞛꞜꞝꞞꞟꞠꞡꞢꞣꞤꞥꞦꞧꞨꞩꞪꞫꞬꞭꞮꞯꞰꞱꞲꞳꞴꞵꞶꞷꞸꞹꞺꞻꞼꞽꞾꞿꟀꟁꟂꟃꟄꟅ"),
              Chars("ꟆꟇꟈꟉꟊꟐꟑꟓꟕꟖꟗꟘꟙꟵꟶꟺꮀꮁꮂꮃꮄꮅꮆꮇꮈꮉꮊꮋꮌꮍꮎꮏꮐꮑꮒꮓꮔꮕꮖꮗꮘꮙꮚꮛꮜꮝꮞꮟꮠꮡꮢꮣꮤꮥꮦꮧꮨꮩꮪꮫꮬꮭꮮꮯꮰꮱꮲꮳꮴꮵꮶꮷꮸꮹꮺꮻꮼꮽꮾꮿ")>>)

\* str.lower(): character by character, except that a capital sigma with a
\* cased character before it and none after it (case-ignorable characters
\* aside) becomes the final sigma.
FinalSigma(s, i) ==
    LET before == {j \in 1..(i - 1) : s[j] \notin CaseIgnorable}
        after == {j \in (i + 1)..Len(s) : s[j] \notin CaseIgnorable}
    IN /\ before # {}
       /\ s[CHOOSE j \in before : \A k \in before : k <= j] \in Cased
       /\ (after = {} \/ s[Least(after)] \notin Cased)

lower(s) ==
    [i \in DOMAIN s |-> IF s[i] = "Σ" /\ FinalSigma(s, i) THEN "ς" ELSE lower_char(s[i])]

RECURSIVE lstrip(_)
lstrip(s) == IF Len(s) > 0 /\ Head(s) \in Whitespace THEN lstrip(Tail(s)) ELSE s

RECURSIVE rstrip(_)
rstrip(s) ==
    IF Len(s) > 0 /\ s[Len(s)] \in Whitespace
    THEN rstrip(SubSeq(s, 1, Len(s) - 1)) ELSE s

strip(s) == rstrip(lstrip(s))

\* str.splitlines(): one line per terminator ("\r\n" is one terminator), and
\* no empty last line.
RECURSIVE splitlines(_)
splitlines(s) ==
    LET breaks == {i \in DOMAIN s : s[i] \in LineBreaks}
    IN IF Len(s) = 0 THEN <<>>
       ELSE IF breaks = {} THEN <<s>>
       ELSE LET i == Least(breaks)
                n == IF s[i] = "\r" /\ i < Len(s) /\ s[i + 1] = "\n" THEN 2 ELSE 1
            IN <<SubSeq(s, 1, i - 1)>> \o splitlines(SubSeq(s, i + n, Len(s)))

\* str.split(): the maximal runs of non-whitespace.
RECURSIVE split(_)
split(s) ==
    LET t == lstrip(s)
        spaces == {i \in DOMAIN t : t[i] \in Whitespace}
    IN IF Len(t) = 0 THEN <<>>
       ELSE IF spaces = {} THEN <<t>>
       ELSE <<SubSeq(t, 1, Least(spaces) - 1)>> \o split(SubSeq(t, Least(spaces), Len(t)))

RECURSIVE join(_, _)
join(sep, parts) ==
    IF Len(parts) = 0 THEN <<>>
    ELSE IF Len(parts) = 1 THEN parts[1]
    ELSE parts[1] \o sep \o join(sep, Tail(parts))

\* needle in hay
contains(needle, hay) ==
    LET n == needle
        h == hay
    IN \E i \in 0..(Len(h) - Len(n)) : SubSeq(h, i + 1, i + Len(n)) = n

replace_char(s, old, new) == [i \in DOMAIN s |-> IF s[i] = old THEN new ELSE s[i]]

\* ------------------------------------------------------------------------
\* Python's float arithmetic.  Natural numbers beyond the integers of TLC
\* are sequences of limbs in base 2^15, the least significant first, with no
\* zero limb at the end; a float is the pair of m and e that stands for
\* m * 2^e, and the result of an operation has 2^52 <= m < 2^53.  The
\* operations are functions, so that an argument is a value before the
\* operation starts.
\* ------------------------------------------------------------------------

BigBase == 32768
Limbs == Seq(Int)
Floats == [m : Limbs, e : Int]

Big[n \in Nat] == IF n = 0 THEN <<>> ELSE <<n % BigBase>> \o Big[n \div BigBase]

BigCarry[xs \in Limbs, carry \in Int] ==
    IF Len(xs) = 0
    THEN IF carry = 0 THEN <<>> ELSE <<carry % BigBase>> \o BigCarry[xs, carry \div BigBase]
    ELSE <<(Head(xs) + carry) % BigBase>> \o BigCarry[Tail(xs), (Head(xs) + carry) \div BigBase]

BigTrim[a \in Limbs] ==
    IF Len(a) > 0 /\ a[Len(a)] = 0 THEN BigTrim[SubSeq(a, 1, Len(a) - 1)] ELSE a

BigNorm[xs \in Limbs] == BigTrim[BigCarry[xs, 0]]

Limb(a, i) == IF i <= Len(a) THEN a[i] ELSE 0

BigAdd[a \in Limbs, b \in Limbs] ==
    BigNorm[[i \in 1..Max(Len(a), Len(b)) |-> Limb(a, i) + Limb(b, i)]]

\* a - b, for a >= b
BigSub[a \in Limbs, b \in Limbs] == BigNorm[[i \in 1..Len(a) |-> a[i] - Limb(b, i)]]

\* a * c, for c <= 2^15
BigTimes[a \in Limbs, c \in Nat] == BigNorm[[i \in DOMAIN a |-> a[i] * c]]

\* a * 2^k
BigShl[a \in Limbs, k \in Nat] ==
    BigTimes[[i \in 1..(Len(a) + k \div 15) |-> IF i <= k \div 15 THEN 0 ELSE a[i - k \div 15]],
             2 ^ (k % 15)]

BigLess[a \in Limbs, b \in Limbs] ==
    IF Len(a) # Len(b) THEN Len(a) < Len(b)
    ELSE \E i \in DOMAIN a : a[i] < b[i] /\ \A j \in (i + 1)..Len(a) : a[j] = b[j]

\* The number of bits of a.
BigBits[a \in Limbs] ==
    IF Len(a) = 0 THEN 0
    ELSE 15 * (Len(a) - 1) + (CHOOSE k \in 1..15 : 2 ^ (k - 1) <= a[Len(a)] /\ a[Len(a)] < 2 ^ k)

\* The first i + 1 bits of a / b, for b <= a < 2b, by long division, and at
\* the end the place of what is left of a against half a unit of the last
\* bit: 0 below, 1 equal, 2 above.
FloatBits[a \in Limbs, b \in Limbs, i \in Nat] ==
    IF i = 0 THEN <<IF BigLess[a, b] THEN 0 ELSE IF a = b THEN 1 ELSE 2>>
    ELSE IF BigLess[a, b] THEN <<0>> \o FloatBits[BigTimes[a, 2], b, i - 1]
    ELSE <<1>> \o FloatBits[BigTimes[BigSub[a, b], 2], b, i - 1]

\* The 53 bits as a number.
FloatMantissa[bits \in Seq(0..2)] ==
    BigNorm[[j \in 1..4 |->
               Sum([k \in 1..15 |-> IF 15 * (j - 1) + k <= 53
                                    THEN bits[54 - 15 * (j - 1) - k] * 2 ^ (k - 1) ELSE 0])]]

\* m + 1, and 2^52 with the next exponent when that takes 54 bits.
FloatNext[m \in Limbs, e \in Int] ==
    IF BigBits[m] = 54 THEN [m |-> BigShl[<<1>>, 52], e |-> e + 1] ELSE [m |-> m, e |-> e]

\* Round to nearest, ties to even.
FloatRound[bits \in Seq(0..2), e \in Int] ==
    IF bits[54] = 2 \/ (bits[54] = 1 /\ bits[53] = 1)
    THEN FloatNext[BigAdd[FloatMantissa[bits], <<1>>], e]
    ELSE [m |-> FloatMantissa[bits], e |-> e]

\* a * 2^e / b rounded to a float, for numbers a and b of as many bits.
FloatAligned[a \in Limbs, b \in Limbs, e \in Int] ==
    IF BigLess[a, b] THEN FloatRound[FloatBits[BigTimes[a, 2], b, 53], e - 53]
    ELSE FloatRound[FloatBits[a, b, 53], e - 52]

\* p * 2^pe / q rounded to a float, for p > 0 and q > 0.
FloatNearest[p \in Limbs, pe \in Int, q \in Limbs] ==
    IF BigBits[p] < BigBits[q]
    THEN FloatAligned[BigShl[p, BigBits[q] - BigBits[p]], q, BigBits[p] - BigBits[q] + pe]
    ELSE FloatAligned[p, BigShl[q, BigBits[p] - BigBits[q]], BigBits[p] - BigBits[q] + pe]

\* float(n)
Float[n \in Nat] == FloatNearest[Big[n], 0, <<1>>]

\* x / y
FloatDiv[x \in Floats, y \in Floats] == FloatNearest[x.m, x.e - y.e, y.m]

\* x + y
FloatAdd[x \in Floats, y \in Floats] ==
    FloatNearest[BigAdd[BigShl[x.m, x.e - Min(x.e, y.e)], BigShl[y.m, y.e - Min(x.e, y.e)]],
                 Min(x.e, y.e), <<1>>]

\* min(x, 1.0)
FloatMinOne[x \in Floats] == IF x.e >= -52 THEN [m |-> BigShl[<<1>>, 52], e |-> -52] ELSE x

\* The literal 1e-5: 5902958103587057 * 2^-69.
Epsilon == [m |-> <<26865, 4550, 25302, 167>>, e |-> -69]

\* The hundredths nearest to p / q, the even one of two that are as near,
\* for p <= q.
BigNearestHundredth[p \in Limbs, q \in Limbs, k \in 0..100] ==
    IF BigLess[q, BigTimes[BigSub[p, BigTimes[q, k]], 2]] THEN k + 1
    ELSE IF q = BigTimes[BigSub[p, BigTimes[q, k]], 2] /\ k % 2 = 1 THEN k + 1
    ELSE k

BigHundredths[p \in Limbs, q \in Limbs] ==
    BigNearestHundredth[p, q, Cardinality({j \in 1..100 : ~BigLess[p, BigTimes[q, j]]})]

\* round(x, 2) in hundredths, for 0 < x <= 1.
FloatRoundHundredths[x \in Floats] == BigHundredths[BigTimes[x.m, 100], BigShl[<<1>>, 0 - x.e]]

\* ------------------------------------------------------------------------
\* Python's re: a backtracking matcher.  ReM returns the positions (and the
\* groups) a node can match to from a state, in the order backtracking tries
\* them; the first is the match the re module reports.
\* ------------------------------------------------------------------------

ReSet(cs) == [k |-> "set", cs |-> cs]
ReAny == [k |-> "any"]
ReCat(items) == [k |-> "cat", items |-> items]
ReAlt(items) == [k |-> "alt", items |-> items]
ReRep(a, lo, hi, inf, greedy) ==
    [k |-> "rep", a |-> a, lo |-> lo, hi |-> hi, inf |-> inf, greedy |-> greedy]
ReGrp(n, a) == [k |-> "grp", n |-> n, a |-> a]
ReBol == [k |-> "bol"]
ReEol == [k |-> "eol"]
ReStar(a) == ReRep(a, 0, 0, TRUE, TRUE)
RePlus(a) == ReRep(a, 1, 0, TRUE, TRUE)
ReLazyPlus(a) == ReRep(a, 1, 0, TRUE, FALSE)
ReOpt(a) == ReRep(a, 0, 1, FALSE, TRUE)
ReBetween(a, lo, hi) == ReRep(a, lo, hi, FALSE, TRUE)
\* A literal under re.IGNORECASE, for a literal of ASCII letters.  The other
\* characters re takes for "i", "s" and "k" (U+0130, U+0131, U+017F, U+212A)
\* are none of the characters of this model.
ReLitI(str) ==
    ReCat([i \in 1..Len(str) |->
             ReSet({lower_char(SubSeq(str, i, i)), upper_char(SubSeq(str, i, i))})])

NoCaps == <<<<0, 0>>, <<0, 0>>, <<0, 0>>>>
Dec(n) == IF n > 0 THEN n - 1 ELSE 0

RECURSIVE ReM(_, _, _)
RECURSIVE ReAll(_, _, _)
RECURSIVE ReCatM(_, _, _)
RECURSIVE ReAltM(_, _, _)

ReAll(re, s, sts) ==
    IF Len(sts) = 0 THEN <<>> ELSE ReM(re, s, Head(sts)) \o ReAll(re, s, Tail(sts))

ReCatM(items, s, sts) ==
    IF Len(items) = 0 \/ Len(sts) = 0 THEN sts
    ELSE ReCatM(Tail(items), s, ReAll(Head(items), s, sts))

ReAltM(items, s, st) ==
    IF Len(items) = 0 THEN <<>>
    ELSE ReM(Head(items), s, st) \o ReAltM(Tail(items), s, st)

ReM(re, s, st) ==
    CASE re.k = "set" ->
           IF st.pos < Len(s) /\ s[st.pos + 1] \in re.cs
           THEN <<[st EXCEPT !.pos = @ + 1]>> ELSE <<>>
      [] re.k = "any" ->
           IF st.pos < Len(s) /\ s[st.pos + 1] # "\n"
           THEN <<[st EXCEPT !.pos = @ + 1]>> ELSE <<>>
      [] re.k = "cat" -> ReCatM(re.items, s, <<st>>)
      [] re.k = "alt" -> ReAltM(re.items, s, st)
      [] re.k = "rep" ->
           LET more == IF re.inf \/ re.hi > 0
                       THEN ReAll(ReRep(re.a, Dec(re.lo), Dec(re.hi), re.inf, re.greedy),
                                  s, ReM(re.a, s, st))
                       ELSE <<>>
               stop == IF re.lo = 0 THEN <<st>> ELSE <<>>
           IN IF re.greedy THEN more \o stop ELSE stop \o more
      [] re.k = "grp" ->
           LET r == ReM(re.a, s, st)
           IN [j \in 1..Len(r) |-> [r[j] EXCEPT !.caps[re.n] = <<st.pos, r[j].pos>>]]
      [] re.k = "bol" -> IF st.pos = 0 THEN <<st>> ELSE <<>>
      [] re.k = "eol" ->
           IF st.pos = Len(s) \/ (st.pos = Len(s) - 1 /\ s[Len(s)] = "\n")
           THEN <<st>> ELSE <<>>

NoMatch == [found |-> FALSE, start |-> 0, end |-> 0, caps |-> NoCaps]

\* The match object for the matches r from position p.
FirstMatch(r, p) ==
    IF Len(r) = 0 THEN NoMatch
    ELSE [found |-> TRUE, start |-> p, end |-> r[1].pos, caps |-> r[1].caps]

re_match(re, s, p) == FirstMatch(ReM(re, s, [pos |-> p, caps |-> NoCaps]), p)

\* The match at the least of the start positions.
LeftmostMatch(re, s, starts) ==
    IF starts = {} THEN NoMatch ELSE re_match(re, s, Least(starts))

\* The leftmost start position at or after p where the pattern matches.
re_search_from(re, s, p) ==
    LeftmostMatch(re, s, {q \in p..Len(s) : re_match(re, s, q).found})

re_search(re, s) == re_search_from(re, s, 0)

\* The position where the search goes on after the match m.
NextSearch(m) == IF m.end > m.start THEN m.end ELSE m.end + 1

RECURSIVE re_finditer_from(_, _, _)
re_finditer_from(re, s, p) ==
    IF ~re_search_from(re, s, p).found THEN <<>>
    ELSE <<re_search_from(re, s, p)>>
         \o re_finditer_from(re, s, NextSearch(re_search_from(re, s, p)))

re_finditer(re, s) == re_finditer_from(re, s, 0)

group(m, s, n) == SubSeq(s, m.caps[n][1] + 1, m.caps[n][2])

\* The three field patterns (the same text in extract.py and ai_parse.py).
WsStar == ReStar(ReSet(Whitespace))
WsPlus == RePlus(ReSet(Whitespace))
SepOpt == ReOpt(ReSet({":", "#", "-"}))
DateSep == ReSet({"-", "/"})
AmountRe ==
    ReCat(<<ReOpt(ReSet({"$", "€", "£"})), ReOpt(ReSet(Whitespace)),
            RePlus(ReSet(Digits \cup {",", "."}))>>)

\* invoice\s*(?:number|no\.?|#)\s*[:#-]?\s*(\w+)
PatInvoiceId ==
    ReCat(<<ReLitI("invoice"), WsStar,
            ReAlt(<<ReLitI("number"),
                    ReCat(<<ReLitI("no"), ReOpt(ReSet({"."}))>>),
                    ReSet({"#"})>>),
            WsStar, SepOpt, WsStar, ReGrp(1, RePlus(ReSet(WordChars)))>>)

\* (?:invoice\s*)?(?:date)\s*[:#-]?\s*([0-9]{1,2}[\-/][0-9]{1,2}[\-/][0-9]{2,4})
PatInvoiceDate ==
    ReCat(<<ReOpt(ReCat(<<ReLitI("invoice"), WsStar>>)), ReLitI("date"),
            WsStar, SepOpt, WsStar,
            ReGrp(1, ReCat(<<ReBetween(ReSet(Digits), 1, 2), DateSep,
                             ReBetween(ReSet(Digits), 1, 2), DateSep,
                             ReBetween(ReSet(Digits), 2, 4)>>))>>)

\* total\s*(?:due|amount)?\s*[:#-]?\s*([$€£]?\s?[0-9,.]+)
PatTotal ==
    ReCat(<<ReLitI("total"), WsStar, ReOpt(ReAlt(<<ReLitI("due"), ReLitI("amount")>>)),
            WsStar, SepOpt, WsStar, ReGrp(1, AmountRe)>>)

\* ^(?P<desc>.+?)\s+(?P<qty>\d+)\s+(?P<price>[$€£]?\s?[0-9,.]+)$
item_pattern ==
    ReCat(<<ReBol, ReGrp(1, ReLazyPlus(ReAny)), WsPlus, ReGrp(2, RePlus(ReSet(DecimalChars))),
            WsPlus, ReGrp(3, AmountRe), ReEol>>)

\* ------------------------------------------------------------------------
\* Bounds and inputs
\* ------------------------------------------------------------------------

\* The longest document, in pages.
MaxPages == 2

\* A raw page: what the readers and the recognizer see on one physical page.
RawPage(text, words) == [text |-> text, words |-> words]

ScenarioText == "Invoice Number: INV-2024-001\nDate: 03/14/2024\nTotal Due: $1,250.00"

PageSamples ==
    { RawPage(ScenarioText,
              <<"Invoice#", "INV-2024", "03/14/24", "TotalDue", "1,250.00">>),
      RawPage("\n  Acme Corp \nInvoice no. 77 ",
              <<"Acme", "Corp", "Invoice", "no.", "77">>),
      RawPage("Widgets 10 $4.50\nWidgets ten dollars\nTOTAL 5\n7.25\n", <<"Widgets", "10", "$4.50", " ">>),
      RawPage("\n\n\n\n\n\n\n\n\n\nAcme Corp\n", <<"Acme", "Corp">>),
      RawPage("", <<>>) }

RECURSIVE SeqsUpTo(_, _)
SeqsUpTo(S, n) ==
    IF n = 0 THEN {<<>>}
    ELSE LET shorter == SeqsUpTo(S, n - 1)
         IN shorter \cup {Append(q, x) : q \in {r \in shorter : Len(r) = n - 1}, x \in S}

Docs == SeqsUpTo(PageSamples, MaxPages)

\* Extractor(ocr_threshold=...): the default, and a threshold nothing is below.
DefaultOcrThreshold == 35
Thresholds == {0, DefaultOcrThreshold}

\* ------------------------------------------------------------------------
\* Extractor (src/extract/extract.py)
\* ------------------------------------------------------------------------

PageRecord(index, text, words, confidence) ==
    [index |-> index, text |-> text, words |-> words, confidence |-> confidence]

\* A return value that may be None.
PyNone == [is_none |-> TRUE, val |-> <<>>]
PyList(q) == [is_none |-> FALSE, val |-> q]

RECURSIVE NonEmptyWords(_)
NonEmptyWords(words) ==
    IF Len(words) = 0 THEN <<>>
    ELSE (IF Head(words) # "" THEN <<Head(words)>> ELSE <<>>) \o NonEmptyWords(Tail(words))

\* Lines 245-247 on the sum and the number of the lengths, the number of
\* distinct texts and the number of words, in hundredths.  statistics.mean
\* is the float nearest to total / count.
PageConfidence(total, count, unique, n) ==
    LET length_score == FloatMinOne[FloatDiv[FloatNearest[Big[total], 0, Big[count]], Float[10]]]
        diversity_score == FloatMinOne[FloatDiv[Float[unique], FloatAdd[Float[n], Epsilon]]]
    IN FloatRoundHundredths[FloatDiv[FloatAdd[length_score, diversity_score], Float[2]]]

_estimate_page_confidence_from_words(words) ==
    LET texts == NonEmptyWords(words)
        lengths == [i \in DOMAIN texts |-> Len(texts[i])]
    IN IF Len(words) = 0 \/ Len(lengths) = 0 THEN 0
       ELSE PageConfidence(Sum(lengths), Len(lengths), Cardinality(Range(texts)), Len(words))

\* The page records the Direct tier appends inside its loop (lines 155-166).
DirectPageRecords(d) ==
    [i \in DOMAIN d |->
        PageRecord(i - 1, d[i].text, d[i].words,
                   _estimate_page_confidence_from_words(d[i].words))]

\* available: pdfplumber was imported; fault: something inside the try raised.
\* The success path builds the page records and then falls off the end of
\* the function: there is no `return pages`, so the caller receives None.
_extract_with_pdfplumber(available, fault, d) ==
    IF ~available THEN PyList(<<>>)
    ELSE IF fault THEN PyList(<<>>)
    ELSE PyNone

\* available: pypdf was imported; open_fault: PdfReader(...) raised;
\* bad: the pages whose extract_text() raised.
_extract_with_pypdf(available, open_fault, bad, d) ==
    IF ~available THEN <<>>
    ELSE IF open_fault THEN <<>>
    ELSE [i \in DOMAIN d |->
            PageRecord(i - 1, IF i \in bad THEN "" ELSE d[i].text, <<>>, 50)]

RECURSIVE OcrWords(_)
OcrWords(words) ==
    IF Len(words) = 0 THEN <<>>
    ELSE (IF Len(strip(Chars(Head(words)))) = 0 THEN <<>> ELSE <<Head(words)>>)
         \o OcrWords(Tail(words))

\* available: pdf2image and pytesseract were both imported; fault: something
\* inside the try raised.
_extract_with_ocr(available, fault, d) ==
    IF ~available THEN <<>>
    ELSE IF fault THEN <<>>
    ELSE [i \in DOMAIN d |->
            PageRecord(i - 1, d[i].text, OcrWords(d[i].words),
                       _estimate_page_confidence_from_words(OcrWords(d[i].words)))]

\* BelowThreshold with an empty result never counted as low quality.
BelowThresholdUnlessEmpty(ps, threshold) ==
    IF Len(ps) = 0 THEN FALSE
    ELSE Sum([i \in DOMAIN ps |-> ps[i].confidence]) < threshold * Len(ps)

\* statistics.mean(confidences) < ocr_threshold, with an empty result's mean 0.
BelowThreshold(ps, threshold) ==
    IF Len(ps) = 0 THEN 0 < threshold
    ELSE Sum([i \in DOMAIN ps |-> ps[i].confidence]) < threshold * Len(ps)

\* _locate_page_for_match with line 310 as len(text): the separator that
\* follows each page is left out of the running offset.
RECURSIVE _locate_from_unseparated(_, _, _, _)
_locate_from_unseparated(char_index, ps, i, cumulative) ==
    IF i > Len(ps) THEN 0
    ELSE LET length == Len(ps[i].text)
         IN IF char_index < cumulative + length THEN ps[i].index
            ELSE _locate_from_unseparated(char_index, ps, i + 1, cumulative + length)

_locate_page_for_match_unseparated(char_index, ps) ==
    _locate_from_unseparated(char_index, ps, 1, 0)

RECURSIVE _locate_from(_, _, _, _)
_locate_from(char_index, ps, i, cumulative) ==
    IF i > Len(ps) THEN 0
    ELSE LET length == Len(ps[i].text) + 1
         IN IF char_index < cumulative + length THEN ps[i].index
            ELSE _locate_from(char_index, ps, i + 1, cumulative + length)

_locate_page_for_match(char_index, ps) == _locate_from(char_index, ps, 1, 0)

SnippetWindow == 60

_extract_snippet(start, end, text_stream) ==
    replace_char(SubSeq(text_stream, Max(0, start - SnippetWindow) + 1,
                        Min(Len(text_stream), end + SnippetWindow)),
                 "\n", " ")

\* The words whose boxes are unioned; the empty set is None.
_find_bbox_for_value(value, words) ==
    LET tokens == split(value)
    IN {i \in DOMAIN words :
          /\ words[i] # ""
          /\ \E t \in DOMAIN tokens : contains(lower(tokens[t]), lower(Chars(words[i])))}

MatchConfidenceCap == 99

\* The whole percentages p (all odd) at which 0.5 + (p / 100) * 0.5, a
\* decimal half of a hundredth, is in binary64 a number that round(x, 2)
\* rounds up; at the other odd percentages it rounds down.
FloatAboveHalf ==
    {1, 3, 5, 7, 9, 11, 27, 29, 31, 33, 35, 37, 39, 51,
     53, 55, 75, 77, 79, 81, 83, 85, 87, 89, 91, 93, 99}

\* round(min(0.5 + numeric_ratio * 0.5, 0.99), 2) in hundredths.  The float
\* is nearer to the exact value than to any half it does not sit on, so it is
\* rounded as the exact value is; on a half, as FloatAboveHalf says.
_confidence_from_match(value) ==
    IF Len(value) = 0 THEN 0
    ELSE LET digits == Cardinality({i \in DOMAIN value : value[i] \in DigitChars})
             num == 50 * (Len(value) + digits)
             den == Len(value)
             q == num \div den
             r == num % den
             rounded == IF 2 * r > den THEN q + 1
                        ELSE IF 2 * r < den THEN q
                        ELSE IF (100 * digits) \div den \in FloatAboveHalf THEN q + 1
                        ELSE q
         IN Min(rounded, MatchConfidenceCap)

HeaderLines == 10

RECURSIVE StripNonBlank(_)
StripNonBlank(lines) ==
    IF Len(lines) = 0 THEN <<>>
    ELSE (IF Len(strip(Head(lines))) = 0 THEN <<>> ELSE <<strip(Head(lines))>>)
         \o StripNonBlank(Tail(lines))

FieldCandidate(field_name, value, confidence, page_number, snippet, bbox, source, metadata) ==
    [field_name |-> field_name, value |-> value, confidence |-> confidence,
     page_number |-> page_number, snippet |-> snippet, bbox |-> bbox,
     source |-> source, metadata |-> metadata]

\* _guess_vendor with a page number counted from one.
_guess_vendor_one_based(ps) ==
    IF Len(ps) = 0 THEN <<>>
    ELSE LET first_page == ps[1]
             text == splitlines(Chars(first_page.text))
             header_lines == StripNonBlank(SubSeq(text, 1, Min(HeaderLines, Len(text))))
         IN IF Len(header_lines) = 0 THEN <<>>
            ELSE LET candidate == header_lines[1]
                     confidence == IF Len(split(candidate)) >= 2 THEN 60 ELSE 40
                 IN <<FieldCandidate("vendor", Str(candidate), confidence,
                                     first_page.index + 1, Str(candidate), {}, "header", "")>>

\* Optional[FieldCandidate].
_guess_vendor(ps) ==
    IF Len(ps) = 0 THEN <<>>
    ELSE LET first_page == ps[1]
             text == splitlines(Chars(first_page.text))
             header_lines == StripNonBlank(SubSeq(text, 1, Min(HeaderLines, Len(text))))
         IN IF Len(header_lines) = 0 THEN <<>>
            ELSE LET candidate == header_lines[1]
                     confidence == IF Len(split(candidate)) >= 2 THEN 60 ELSE 40
                 IN <<FieldCandidate("vendor", Str(candidate), confidence,
                                     first_page.index, Str(candidate), {}, "header", "")>>

\* The order of the `patterns` dict.
Patterns ==
    << [field |-> "invoice_id", pattern |-> PatInvoiceId,
        text |-> "invoice\\s*(?:number|no\\.?|#)\\s*[:#-]?\\s*(\\w+)"],
       [field |-> "invoice_date", pattern |-> PatInvoiceDate,
        text |-> "(?:invoice\\s*)?(?:date)\\s*[:#-]?\\s*([0-9]{1,2}[\\-/][0-9]{1,2}[\\-/][0-9]{2,4})"],
       [field |-> "total", pattern |-> PatTotal,
        text |-> "total\\s*(?:due|amount)?\\s*[:#-]?\\s*([$€£]?\\s?[0-9,.]+)"] >>

\* pages[page_index] raises IndexError outside the list.
ValidIndex(ps, k) == k + 1 \in DOMAIN ps

CandidateOfMatch(p, m, text_stream, ps) ==
    LET value == strip(group(m, text_stream, 1))
        page_index == _locate_page_for_match(m.start, ps)
    IN FieldCandidate(p.field, Str(value), _confidence_from_match(value), page_index,
                      Str(_extract_snippet(m.start, m.end, text_stream)),
                      IF ValidIndex(ps, page_index)
                      THEN _find_bbox_for_value(value, ps[page_index + 1].words) ELSE {},
                      "regex", p.text)

RegexCandidates(p, text_stream, ps) ==
    LET ms == re_finditer(p.pattern, text_stream)
    IN [j \in DOMAIN ms |-> CandidateOfMatch(p, ms[j], text_stream, ps)]

\* [raised, candidates]: raised when a pages[page_index] lookup is out of range.
_generate_field_candidates(ps) ==
    LET text_stream == join(<<"\n">>, [i \in DOMAIN ps |-> Chars(ps[i].text)])
    IN IF Len(text_stream) = 0 THEN [raised |-> FALSE, candidates |-> <<>>]
       ELSE LET regex == Flatten([j \in DOMAIN Patterns |->
                                    RegexCandidates(Patterns[j], text_stream, ps)])
            IN IF \E j \in DOMAIN regex : ~ValidIndex(ps, regex[j].page_number)
               THEN [raised |-> TRUE, candidates |-> <<>>]
               ELSE [raised |-> FALSE, candidates |-> regex \o _guess_vendor(ps)]


\* ------------------------------------------------------------------------
\* InvoiceParser (src/parse/ai_parse.py)
\* ------------------------------------------------------------------------

ParsedField(name, value, confidence, source, reasoning) ==
    [name |-> name, value |-> value, confidence |-> confidence,
     source |-> source, reasoning |-> reasoning]

ReasoningStep(field, method, detail) ==
    [field |-> field, method |-> method, detail |-> detail]

\* A record of known_entities["vendors"]; confidence is Optional.
Vendor(uid, name, confidence) == [uid |-> uid, name |-> name, confidence |-> confidence]

\* vendor.get("confidence", 0.9)
DefaultVendorConfidence == 90

KnownEntityTables ==
    { <<>>,
      <<Vendor("acme-001", "Acme Corporation", <<95>>), Vendor("acme-002", "acme corp ", <<>>)>>,
      <<Vendor("wid-001", "Widgets", <<150>>), Vendor("tot-001", "total", <<70>>)>> }

\* An entity of doc.ents.
Entity(label_, text, kb_id_) == [label_ |-> label_, text |-> text, kb_id_ |-> kb_id_]

\* The recognizer: absent (None), or the entities it returns for the text.
RecognizerOutputs ==
    { <<>>,
      << <<Entity("ORG", "Acme Corp", ""), Entity("PRODUCT", "Widgets", "Q42")>> >> }

\* A confidence that is a float (h hundredths) or, from `kb_id_ or 0.5`, a str.
PyFloat(h) == [is_float |-> TRUE, h |-> h, s |-> ""]
PyStr(s) == [is_float |-> FALSE, h |-> 0, s |-> s]

RECURSIVE _match_from(_, _, _)
_match_from(text, vendors, i) ==
    IF i > Len(vendors) THEN [field |-> <<>>, steps |-> <<>>]
    ELSE LET vendor == vendors[i]
             name == vendor.name
         IN IF name # "" /\ contains(lower(Chars(name)), lower(text))
            THEN [field |-> <<ParsedField("vendor", name,
                                          IF Len(vendor.confidence) = 0
                                          THEN DefaultVendorConfidence
                                          ELSE vendor.confidence[1],
                                          "known_entity", "Matched known vendor " \o name)>>,
                  steps |-> <<ReasoningStep("vendor", "known-entity",
                                            "Matched vendor '" \o name \o "' by UID "
                                              \o vendor.uid)>>]
            ELSE _match_from(text, vendors, i + 1)

\* _match_known_entity without the early return of line 158: the last
\* matching record wins.
_match_known_entity_last(text, vendors) ==
    _match_from(text, [i \in DOMAIN vendors |-> vendors[Len(vendors) + 1 - i]], 1)

\* [field: Optional[ParsedField], steps: what it appends to reasoning_steps]
_match_known_entity(text, vendors) == _match_from(text, vendors, 1)

RegexConfidenceCap == 95

\* round(min(0.95, 0.6 + len(value) / 30), 2) in hundredths: the nearest
\* whole number to 60 + 10 * len(value) / 3, which is never on a half.
RegexConfidence(value) ==
    Min(RegexConfidenceCap, (3600 + 200 * Len(value) + 30) \div 60)

\* Optional[ParsedField].
_regex_extract(text, pattern, label) ==
    LET match == re_search(pattern, text)
    IN IF ~match.found THEN <<>>
       ELSE LET value == strip(group(match, text, 1))
                confidence == RegexConfidence(value)
            IN <<ParsedField(Str(replace_char(lower(Chars(label)), " ", "_")), Str(value),
                             confidence, "regex",
                             "Detected " \o Str(lower(Chars(label))) \o " via regex")>>

OrgLabels == {"vendor", "org", "company"}

RECURSIVE _extract_from_model(_)
\* [entities, steps] for doc.ents.
_extract_from_model(ents) ==
    IF Len(ents) = 0 THEN [entities |-> <<>>, steps |-> <<>>]
    ELSE LET ent == Head(ents)
             label == Str(lower(Chars(ent.label_)))
             rest == _extract_from_model(Tail(ents))
         IN [entities |->
               <<ParsedField(label, ent.text,
                             IF ent.kb_id_ # "" THEN PyStr(ent.kb_id_) ELSE PyFloat(50),
                             "spacy",
                             "Detected entity " \o ent.text \o " (" \o ent.label_ \o ")")>>
               \o rest.entities,
             steps |->
               (IF label \in OrgLabels
                THEN <<ReasoningStep("vendor", "spacy-ner",
                                     "Detected organization entity '" \o ent.text \o "'")>>
                ELSE <<>>) \o rest.steps]

RECURSIVE ItemsOfLines(_)
ItemsOfLines(lines) ==
    IF Len(lines) = 0 THEN <<>>
    ELSE LET line == Head(lines)
             match == re_match(item_pattern, line, 0)
         IN (IF match.found
             THEN <<[description |-> Str(group(match, line, 1)),
                     quantity |-> Str(group(match, line, 2)),
                     price |-> Str(group(match, line, 3))]>>
             ELSE <<>>) \o ItemsOfLines(Tail(lines))

\* _extract_line_items matching the pattern against the whole text instead of
\* each line of it.
_extract_line_items_whole_text(text) ==
    LET line_items == ItemsOfLines(StripNonBlank(<<text>>))
    IN [line_items |-> line_items,
        steps |-> IF Len(line_items) > 0
                  THEN <<ReasoningStep("line_items", "regex-table",
                                       "Detected " \o ToString(Len(line_items))
                                         \o " potential line items")>>
                  ELSE <<>>]

\* [line_items, steps]
_extract_line_items(text) ==
    LET line_items == ItemsOfLines(StripNonBlank(splitlines(text)))
    IN [line_items |-> line_items,
        steps |-> IF Len(line_items) > 0
                  THEN <<ReasoningStep("line_items", "regex-table",
                                       "Detected " \o ToString(Len(line_items))
                                         \o " potential line items")>>
                  ELSE <<>>]

\* nlp: Optional recognizer output (None when self._nlp is None).
parse(ps, vendors, nlp) ==
    LET text == join(<<"\n">>, [i \in DOMAIN ps |-> Chars(ps[i].text)])
        known == _match_known_entity(text, vendors)
        model == IF Len(nlp) > 0 THEN _extract_from_model(nlp[1])
                 ELSE [entities |-> <<>>, steps |-> <<>>]
        items == _extract_line_items(text)
    IN [vendor |-> known.field,
        invoice_id |-> _regex_extract(text, PatInvoiceId, "Invoice number"),
        invoice_date |-> _regex_extract(text, PatInvoiceDate, "Invoice date"),
        total |-> _regex_extract(text, PatTotal, "Total amount"),
        line_items |-> items.line_items,
        additional_entities |-> model.entities,
        reasoning_steps |-> known.steps \o model.steps \o items.steps]


\* ------------------------------------------------------------------------
\* The threads, objects and starting state of SheetSync and TrainingEngine
\* ------------------------------------------------------------------------

SheetThreads == {"t1", "t2"}

\* The SheetSync objects of the process.
Instances == {"a", "b"}

\* The `records` arguments; a record is stood for by its uid ("" when it has
\* none).
RecordLists == {<<>>, <<"", "u1">>, <<"u2">>, <<"u1", "u2">>}

\* range(5), the last attempt's number, and the first delay in seconds.
MaxAttempts == 5
LastAttempt == 4
InitialDelay == 1

\* delay *= 2 without the doubling.
NextDelayConstant(delay) == delay

\* delay *= 2
NextDelay(delay) == delay * 2

\* No _with_retry call made yet by the thread's upsert_records call.
NoRetry ==
    [status |-> "none", func |-> "", attempt |-> 0, delay |-> 0, calls |-> 0,
     slept |-> <<>>, outcome |-> <<>>]

\* _with_retry entered: delay = 1.0 and the loop at attempt 0, about to call
\* func.
RetryEntered(func) ==
    [status |-> "running", func |-> func, attempt |-> 0, delay |-> InitialDelay,
     calls |-> 0, slept |-> <<>>, outcome |-> <<>>]

\* authorized: the value of the right-hand side of line 71 (0 after the
\* exception of line 73) until it is assigned; client: what _authenticate
\* returned to ensure_sheet.
NoLocals == [authorized |-> 0, client |-> 0, i |-> 0, existing_uids |-> {}, new_rows |-> <<>>]

\* The SheetSync state of a process in which upsert_records was not called.
SheetsIdle ==
    /\ sheet_pc = [t \in SheetThreads |-> "idle"]
    /\ sheet_self = [t \in SheetThreads |-> "a"]
    /\ sheet_records = [t \in SheetThreads |-> <<>>]
    /\ sheet_locals = [t \in SheetThreads |-> NoLocals]
    /\ retry = [t \in SheetThreads |-> NoRetry]
    /\ sheet_result = [t \in SheetThreads |-> <<>>]
    /\ _lock = <<>>
    /\ _client = [o \in Instances |-> 0]
    /\ _sheet_cache = [o \in Instances |-> FALSE]
    /\ authorize_calls = 0
    /\ worksheet = [rows |-> {}, headers |-> FALSE]
    /\ sheets_env = [dependencies |-> TRUE, credentials |-> TRUE]

\* No exception is being handled, and none left the caller's last call.
NoError == ""

\* The threads that call record_feedback and stop, and the number of calls
\* on the engine.
Callers == {"c1", "c2"}
MaxCalls == 3

\* The TrainingEngine state after construction, with an empty feedback file.
TrainIdle ==
    /\ train_pc = [c \in Callers |-> "idle"]
    /\ calls_made = 0
    /\ feedback_file = <<>>
    /\ _training_thread = 0
    /\ _stop_event = FALSE
    /\ thread_ref = [c \in Callers |-> 0]
    /\ in_method = [c \in Callers |-> ""]
    /\ waiting = [c \in Callers |-> ""]
    /\ lock_ref = [c \in Callers |-> 0]
    /\ stop_lock = [c \in Callers |-> 0]
    /\ error = [c \in Callers |-> NoError]
    /\ threads = <<>>
    /\ runs = <<>>
    /\ training_log = <<>>
    /\ process = "running"


\* ------------------------------------------------------------------------
\* The pipeline as a state machine: one run of Extractor.process_pdf
\* followed by InvoiceParser.parse on its result.
\* ------------------------------------------------------------------------

Tiers == {"direct", "generic", "ocr"}

Init ==
    /\ pc = "INIT"
    /\ path_exists \in BOOLEAN
    /\ force_ocr \in BOOLEAN
    /\ ocr_threshold \in Thresholds
    /\ doc \in Docs
    /\ known_entities = <<>>
    /\ pages = <<>>
    /\ ocr_used = FALSE
    /\ exc = ""
    /\ invoked = <<>>
    /\ outcome = [t \in Tiers |-> "not_run"]
    /\ page_count = [t \in Tiers |-> <<>>]
    /\ direct_read = <<>>
    /\ pages_origin = "none"
    /\ candidates = <<>>
    /\ parse_result = <<>>
    /\ override_vendor_code = <<>>
    /\ record = <<>>
    /\ SheetsIdle
    /\ TrainIdle

\* What a tier call came to: a tier-local failure (its backend is missing, or
\* something inside it raised) or a read of the document.
TierOutcome(available, fault) == IF ~available \/ fault THEN "failed" ELSE "ok"

\* Start with the `if not force_ocr` guard of line 110 left out.
StartIgnoringForce ==
    /\ pc = "INIT"
    /\ IF ~path_exists
       THEN /\ pc' = "RAISED"
            /\ exc' = "FileNotFoundError"
            /\ UNCHANGED <<pages, ocr_used>>
       ELSE /\ pages' = <<>>
            /\ ocr_used' = force_ocr
            /\ pc' = "DIRECT"
            /\ exc' = ""
    /\ UNCHANGED <<path_exists, force_ocr, ocr_threshold, doc, invoked, outcome,
                   page_count, direct_read, pages_origin, candidates, 
                   known_entities, parse_result,
                   override_vendor_code, record, sheetVars, trainVars>>

\* process_pdf, lines 103-110.
Start ==
    /\ pc = "INIT"
    /\ IF ~path_exists
       THEN /\ pc' = "RAISED"
            /\ exc' = "FileNotFoundError"
            /\ UNCHANGED <<pages, ocr_used>>
       ELSE /\ pages' = <<>>
            /\ ocr_used' = force_ocr
            /\ pc' = IF force_ocr THEN "GENERIC" ELSE "DIRECT"
            /\ exc' = ""
    /\ UNCHANGED <<path_exists, force_ocr, ocr_threshold, doc, invoked, outcome,
                   page_count, direct_read, pages_origin, candidates, 
                   known_entities, parse_result,
                   override_vendor_code, record, sheetVars, trainVars>>

\* process_pdf, lines 111-122: the Direct tier, then len(pages) and the mean.
DirectTier ==
    /\ pc = "DIRECT"
    /\ \E available \in BOOLEAN, fault \in BOOLEAN :
         \E ret \in {_extract_with_pdfplumber(available, fault, doc)} :
            /\ invoked' = Append(invoked, "direct")
            /\ outcome' = [outcome EXCEPT !["direct"] = TierOutcome(available, fault)]
            /\ direct_read' = IF available /\ ~fault THEN DirectPageRecords(doc) ELSE <<>>
            /\ page_count' = [page_count EXCEPT !["direct"] =
                                IF ret.is_none THEN <<>> ELSE <<Len(ret.val)>>]
            /\ IF ret.is_none
               THEN \* len(None) at line 112
                    /\ pc' = "RAISED"
                    /\ exc' = "TypeError"
                    /\ UNCHANGED <<pages, ocr_used, pages_origin>>
               ELSE /\ pages' = ret.val
                    /\ pages_origin' = "direct"
                    /\ ocr_used' = IF BelowThreshold(ret.val, ocr_threshold)
                                   THEN TRUE ELSE ocr_used
                    /\ pc' = "GENERIC"
                    /\ exc' = ""
    /\ UNCHANGED <<path_exists, force_ocr, ocr_threshold, doc, candidates,
                   known_entities, parse_result,
                   override_vendor_code, record, sheetVars, trainVars>>

\* The condition of line 124 without its `not ocr_used`.
NeedsGenericWhenEmpty(ps, used) == Len(ps) = 0

\* Line 124: not pages and not ocr_used.
NeedsGeneric(ps, used) == Len(ps) = 0 /\ ~used

\* process_pdf, lines 124-126.  iter_fault: enumerating reader.pages (line
\* 181, outside any try) raised.
GenericTier ==
    /\ pc = "GENERIC"
    /\ IF NeedsGeneric(pages, ocr_used)
       THEN \E available \in BOOLEAN, open_fault \in BOOLEAN, iter_fault \in BOOLEAN,
               bad \in SUBSET (DOMAIN doc) :
              /\ iter_fault => (available /\ ~open_fault /\ bad = {})
              /\ (~available \/ open_fault) => bad = {}
              /\ invoked' = Append(invoked, "generic")
              /\ outcome' = [outcome EXCEPT !["generic"] =
                               TierOutcome(available, open_fault \/ iter_fault)]
              /\ IF iter_fault
                 THEN /\ pc' = "RAISED"
                      /\ exc' = "PdfReadError"
                      /\ UNCHANGED <<pages, pages_origin, page_count>>
                 ELSE /\ pages' = _extract_with_pypdf(available, open_fault, bad, doc)
                      /\ page_count' = [page_count EXCEPT !["generic"] = <<Len(pages')>>]
                      /\ pages_origin' = "generic"
                      /\ pc' = "OCR"
                      /\ exc' = ""
       ELSE /\ pc' = "OCR"
            /\ UNCHANGED <<pages, pages_origin, invoked, outcome, page_count, exc>>
    /\ UNCHANGED <<path_exists, force_ocr, ocr_threshold, doc, ocr_used, direct_read,
                   candidates, known_entities, parse_result,
                   override_vendor_code, record, sheetVars, trainVars>>

\* Line 128: force_ocr or ocr_used or not pages.
NeedsOcr(force, used, ps) == force \/ used \/ Len(ps) = 0

\* Lines 130-131 without the assignment to ocr_used.
AfterOcrFlagKept(ocr_pages, used) == [pages |-> ocr_pages, ocr_used |-> used]

\* Lines 130-131 with the OCR tier's return value not assigned to pages.
AfterOcrResultUnassigned(ocr_pages, used) == [pages |-> pages, ocr_used |-> TRUE]

\* Lines 130-131: the locals after the OCR tier returned ocr_pages.
AfterOcr(ocr_pages, used) == [pages |-> ocr_pages, ocr_used |-> TRUE]

\* process_pdf, lines 128-131.
OcrTier ==
    /\ pc = "OCR"
    /\ IF NeedsOcr(force_ocr, ocr_used, pages)
       THEN \E available \in BOOLEAN, fault \in BOOLEAN :
              \E after \in {AfterOcr(_extract_with_ocr(available, fault, doc), ocr_used)} :
              /\ ~available => ~fault
              /\ invoked' = Append(invoked, "ocr")
              /\ outcome' = [outcome EXCEPT !["ocr"] = TierOutcome(available, fault)]
              /\ pages' = after.pages
              /\ ocr_used' = after.ocr_used
              /\ page_count' = [page_count EXCEPT !["ocr"] = <<Len(pages')>>]
              /\ pages_origin' = "ocr"
       ELSE UNCHANGED <<pages, pages_origin, invoked, outcome, page_count, ocr_used>>
    /\ pc' = "GENERATE"
    /\ UNCHANGED <<path_exists, force_ocr, ocr_threshold, doc, exc, direct_read,
                   candidates, known_entities, parse_result,
                   override_vendor_code, record, sheetVars, trainVars>>

\* process_pdf, lines 133-146: the Generator, then the ExtractionResult
\* (pages, candidates, ocr_used) is returned.
Generate ==
    /\ pc = "GENERATE"
    /\ \E r \in {_generate_field_candidates(pages)} :
          IF r.raised
          THEN /\ pc' = "RAISED"
               /\ exc' = "IndexError"
               /\ UNCHANGED candidates
          ELSE /\ pc' = "DONE"
               /\ exc' = ""
               /\ candidates' = r.candidates
    /\ UNCHANGED <<path_exists, force_ocr, ocr_threshold, doc, pages, ocr_used, invoked,
                   outcome, page_count, direct_read, pages_origin, known_entities, parse_result,
                   override_vendor_code, record, sheetVars, trainVars>>

\* InvoiceParser.parse on the ExtractionResult (invoice_processor.py line 59),
\* by a parser whose known-entity table is `vendors`.
Parse ==
    /\ pc = "DONE"
    /\ \E vendors \in KnownEntityTables, nlp \in RecognizerOutputs :
         /\ known_entities' = vendors
         /\ parse_result' = <<parse(pages, vendors, nlp)>>
    /\ pc' = "PARSED"
    /\ UNCHANGED <<path_exists, force_ocr, ocr_threshold, doc, pages, ocr_used, exc,
                   invoked, outcome, page_count, direct_read, pages_origin, candidates,
                   override_vendor_code, record, sheetVars, trainVars>>

\* The attributes of a ParseResult (ai_parse.py lines 28-36) and of a
\* ParsedField (lines 19-25); reading any other raises AttributeError.
ParseResultAttrs ==
    {"vendor", "invoice_id", "invoice_date", "total", "line_items",
     "additional_entities", "reasoning_steps"}
ParsedFieldAttrs == {"name", "value", "confidence", "source", "reasoning"}

\* _field_value of _build_record: field.value.strip() if field and field.value.
_field_value(field, fallback) ==
    IF Len(field) = 1 /\ field[1].value # "" THEN Str(strip(Chars(field[1].value)))
    ELSE fallback

InvoiceRecord(invoice_date, invoice_number, address, description, amount, vendor_code) ==
    [invoice_date |-> invoice_date, invoice_number |-> invoice_number,
     address |-> address, description |-> description, amount |-> amount,
     vendor_code |-> vendor_code]

\* A Python truth test of an Optional[str].
Truthy(opt) == Len(opt) = 1 /\ opt[1] # ""

\* [raised, record]: raised when an attribute the object lacks is read.
_build_record(pr, override) ==
    IF ~Truthy(override) /\ "project_code" \notin ParseResultAttrs
    THEN [raised |-> TRUE, record |-> <<>>]                       \* line 70
    ELSE LET vendor_code == IF Truthy(override) THEN override[1]
                            ELSE _field_value(pr.project_code, "")
         IN IF vendor_code = "" /\ Len(pr.vendor) = 1
                /\ "metadata" \notin ParsedFieldAttrs
            THEN [raised |-> TRUE, record |-> <<>>]               \* line 73
            ELSE IF {"address", "description"} \subseteq ParseResultAttrs
            THEN [raised |-> FALSE,
                  record |-> <<InvoiceRecord(
                      _field_value(pr.invoice_date, ""),
                      _field_value(pr.invoice_id, ""),
                      _field_value(pr.address, ""),
                      _field_value(pr.description, ""),
                      _field_value(pr.total, ""),
                      IF vendor_code # "" THEN vendor_code
                      ELSE IF Len(pr.vendor) = 1 /\ pr.vendor[1].metadata.code # ""
                      THEN pr.vendor[1].metadata.code
                      ELSE "UNKNOWN")>>]
            ELSE [raised |-> TRUE, record |-> <<>>]               \* line 79

\* The override_vendor_code arguments: None, or a code.
Overrides == {<<>>, <<"ACM">>}

\* InvoiceProcessor.process, line 60, after process_pdf(pdf_path) (force_ocr
\* left at its default) and parse returned.
BuildRecord ==
    /\ pc = "PARSED"
    /\ ~force_ocr
    /\ \E override \in Overrides :
         LET r == _build_record(parse_result[1], override)
         IN /\ override_vendor_code' = override
            /\ IF r.raised
               THEN /\ pc' = "PROCESS_RAISED"
                    /\ exc' = "AttributeError"
                    /\ record' = <<>>
               ELSE /\ pc' = "RECORDED"
                    /\ exc' = ""
                    /\ record' = r.record
    /\ UNCHANGED <<path_exists, force_ocr, ocr_threshold, doc, pages, ocr_used,
                   invoked, outcome, page_count, direct_read, pages_origin, candidates,
                   known_entities, parse_result, sheetVars, trainVars>>

Next ==
    \/ Start \/ DirectTier \/ GenericTier \/ OcrTier \/ Generate
    \/ Parse \/ BuildRecord

Spec == Init /\ [][Next]_vars


\* ------------------------------------------------------------------------
\* SheetSync (src/sheets/sheets.py): threads calling upsert_records
\* ------------------------------------------------------------------------

\* The thread's call is over with `result`; leaving the `with` block of line
\* 105 releases the lock.
Return(t, result) ==
    /\ sheet_pc' = [sheet_pc EXCEPT ![t] = "returned"]
    /\ sheet_result' = [sheet_result EXCEPT ![t] = <<result>>]
    /\ _lock' = IF _lock = <<t>> THEN <<>> ELSE _lock

Goto(t, label) ==
    /\ sheet_pc' = [sheet_pc EXCEPT ![t] = label]
    /\ UNCHANGED <<sheet_result, _lock>>

\* upsert_records line 100 -> ensure_sheet line 79 -> _authenticate lines
\* 57-66, up to the external calls; line 59 reads self._client.
Authenticate(t) ==
    /\ sheet_pc[t] = "idle"
    /\ IF ~sheets_env.dependencies THEN Return(t, "False")
       ELSE IF _client[sheet_self[t]] # 0 THEN Goto(t, "return_client")
       ELSE IF ~sheets_env.credentials THEN Return(t, "False")
       ELSE Goto(t, "in_authorize")
    /\ UNCHANGED <<sheet_self, sheet_records, sheet_locals, retry, _client, _sheet_cache,
                   authorize_calls, worksheet, sheets_env, extractVars, trainVars>>

\* _authenticate lines 68-71, the right-hand side: from_service_account_file
\* and gspread.authorize return a client, or one of them raises (line 73).
Authorize(t) ==
    /\ sheet_pc[t] = "in_authorize"
    /\ \E ok \in BOOLEAN :
         IF ok
         THEN /\ authorize_calls' = authorize_calls + 1
              /\ sheet_locals' = [sheet_locals EXCEPT ![t].authorized = authorize_calls + 1]
         ELSE /\ UNCHANGED authorize_calls
              /\ sheet_locals' = [sheet_locals EXCEPT ![t].authorized = 0]
    /\ Goto(t, "store_client")
    /\ UNCHANGED <<sheet_self, sheet_records, retry, _client, _sheet_cache,
                   worksheet, sheets_env, extractVars, trainVars>>

\* _authenticate line 71, or line 75 after an exception: self._client is
\* assigned.
StoreClient(t) ==
    /\ sheet_pc[t] = "store_client"
    /\ _client' = [_client EXCEPT ![sheet_self[t]] = sheet_locals[t].authorized]
    /\ Goto(t, "return_client")
    /\ UNCHANGED <<sheet_self, sheet_records, sheet_locals, retry, _sheet_cache,
                   authorize_calls, worksheet, sheets_env, extractVars, trainVars>>

\* _authenticate line 60 or 76, `return self._client`: the attribute is read
\* again; ensure_sheet lines 80-81 and upsert_records lines 101-103 return
\* when it is None.
ReturnClient(t) ==
    /\ sheet_pc[t] = "return_client"
    /\ sheet_locals' = [sheet_locals EXCEPT ![t].client = _client[sheet_self[t]]]
    /\ IF _client[sheet_self[t]] = 0 THEN Return(t, "False") ELSE Goto(t, "ensure_sheet")
    /\ UNCHANGED <<sheet_self, sheet_records, retry, _client, _sheet_cache,
                   authorize_calls, worksheet, sheets_env, extractVars, trainVars>>

\* ensure_sheet lines 82-83: the cache lookup (an entry is never removed, so
\* the test and the read of the entry are one step).
EnsureSheet(t) ==
    /\ sheet_pc[t] = "ensure_sheet"
    /\ IF _sheet_cache[sheet_self[t]] THEN Goto(t, "lock") ELSE Goto(t, "in_open")
    /\ UNCHANGED <<sheet_self, sheet_records, sheet_locals, retry, _client, _sheet_cache,
                   authorize_calls, worksheet, sheets_env, extractVars, trainVars>>

\* ensure_sheet lines 84-90: client.open returns the spreadsheet, which line 89
\* stores, or raises.
Open(t) ==
    /\ sheet_pc[t] = "in_open"
    /\ \E ok \in BOOLEAN :
         IF ok
         THEN /\ _sheet_cache' = [_sheet_cache EXCEPT ![sheet_self[t]] = TRUE]
              /\ Goto(t, "lock")
         ELSE /\ UNCHANGED _sheet_cache
              /\ Goto(t, "in_create")
    /\ UNCHANGED <<sheet_self, sheet_records, sheet_locals, retry, _client,
                   authorize_calls, worksheet, sheets_env, extractVars, trainVars>>

\* ensure_sheet lines 88-90: client.create returns the spreadsheet, or its
\* exception leaves upsert_records.
Create(t) ==
    /\ sheet_pc[t] = "in_create"
    /\ \E ok \in BOOLEAN :
         IF ok
         THEN /\ _sheet_cache' = [_sheet_cache EXCEPT ![sheet_self[t]] = TRUE]
              /\ Goto(t, "lock")
         ELSE /\ UNCHANGED _sheet_cache
              /\ Return(t, "raised")
    /\ UNCHANGED <<sheet_self, sheet_records, sheet_locals, retry, _client,
                   authorize_calls, worksheet, sheets_env, extractVars, trainVars>>

\* Lines 105 and 95: the class-level lock is acquired, and line 170 calls
\* sheet.worksheet.
Acquire(t) ==
    /\ sheet_pc[t] = "lock"
    /\ _lock = <<>>
    /\ _lock' = <<t>>
    /\ sheet_pc' = [sheet_pc EXCEPT ![t] = "in_worksheet"]
    /\ UNCHANGED <<sheet_self, sheet_records, sheet_locals, retry, sheet_result, _client,
                   _sheet_cache, authorize_calls, worksheet, sheets_env, extractVars,
                   trainVars>>

\* _get_or_create_worksheet lines 169-173: sheet.worksheet returns, or raises
\* and add_worksheet is called.
Worksheet(t) ==
    /\ sheet_pc[t] = "in_worksheet"
    /\ \E ok \in BOOLEAN :
         IF ok THEN Goto(t, "in_get_all_records") ELSE Goto(t, "in_add_worksheet")
    /\ UNCHANGED <<sheet_self, sheet_records, sheet_locals, retry, _client, _sheet_cache,
                   authorize_calls, worksheet, sheets_env, extractVars, trainVars>>

\* Line 173: add_worksheet returns, or raises into the handler of line 128.
AddWorksheet(t) ==
    /\ sheet_pc[t] = "in_add_worksheet"
    /\ \E ok \in BOOLEAN :
         IF ok THEN Goto(t, "in_get_all_records") ELSE Return(t, "False")
    /\ UNCHANGED <<sheet_self, sheet_records, sheet_locals, retry, _client, _sheet_cache,
                   authorize_calls, worksheet, sheets_env, extractVars, trainVars>>

\* Lines 108-110: get_all_records returns the rows, or raises.
GetAllRecords(t) ==
    /\ sheet_pc[t] = "in_get_all_records"
    /\ \E ok \in BOOLEAN :
         IF ok
         THEN /\ sheet_locals' = [sheet_locals EXCEPT ![t].i = 1,
                                                      ![t].existing_uids = worksheet.rows,
                                                      ![t].new_rows = <<>>]
              /\ Goto(t, "loop")
         ELSE /\ UNCHANGED sheet_locals
              /\ Return(t, "False")
    /\ UNCHANGED <<sheet_self, sheet_records, retry, _client, _sheet_cache,
                   authorize_calls, worksheet, sheets_env, extractVars, trainVars>>

\* Lines 111-127: one turn of the loop over the records, or what follows the
\* loop. An existing uid enters _update_row (line 150), new rows enter
\* _ensure_headers (line 161).
Loop(t) ==
    /\ sheet_pc[t] = "loop"
    /\ LET l == sheet_locals[t]
           records == sheet_records[t]
       IN IF l.i > Len(records)
          THEN /\ UNCHANGED sheet_locals
               /\ IF Len(l.new_rows) > 0 THEN Goto(t, "in_row_values")
                  ELSE Return(t, "True")
          ELSE LET uid == records[l.i]
               IN IF uid = ""
                  THEN /\ sheet_locals' = [sheet_locals EXCEPT ![t].i = l.i + 1]
                       /\ Goto(t, "loop")
                  ELSE IF uid \in l.existing_uids
                  THEN /\ UNCHANGED sheet_locals
                       /\ Goto(t, "in_update_get_all_records")
                  ELSE /\ sheet_locals' = [sheet_locals EXCEPT
                             ![t].i = l.i + 1,
                             ![t].existing_uids = l.existing_uids \cup {uid},
                             ![t].new_rows = Append(l.new_rows, uid)]
                       /\ Goto(t, "loop")
    /\ UNCHANGED <<sheet_self, sheet_records, retry, _client, _sheet_cache,
                   authorize_calls, worksheet, sheets_env, extractVars, trainVars>>

\* _update_row line 150: get_all_records returns, or raises.
UpdateGetAllRecords(t) ==
    /\ sheet_pc[t] = "in_update_get_all_records"
    /\ \E ok \in BOOLEAN :
         IF ok THEN Goto(t, "in_update_row_values") ELSE Return(t, "False")
    /\ UNCHANGED <<sheet_self, sheet_records, sheet_locals, retry, _client, _sheet_cache,
                   authorize_calls, worksheet, sheets_env, extractVars, trainVars>>

\* _update_row lines 151-158: row_values returns, or raises; the row of the
\* uid is updated through _with_retry, or the uid is not among the rows.
UpdateRowValues(t) ==
    /\ sheet_pc[t] = "in_update_row_values"
    /\ \E ok \in BOOLEAN :
         IF ~ok
         THEN /\ UNCHANGED <<sheet_locals, retry>>
              /\ Return(t, "False")
         ELSE IF sheet_records[t][sheet_locals[t].i] \in worksheet.rows
         THEN /\ retry' = [retry EXCEPT ![t] = RetryEntered("update")]
              /\ UNCHANGED sheet_locals
              /\ Goto(t, "in_func")
         ELSE /\ sheet_locals' = [sheet_locals EXCEPT ![t].i = @ + 1]
              /\ UNCHANGED retry
              /\ Goto(t, "loop")
    /\ UNCHANGED <<sheet_self, sheet_records, _client, _sheet_cache,
                   authorize_calls, worksheet, sheets_env, extractVars, trainVars>>

\* _ensure_headers lines 161-166: row_values returns the header row, or
\* raises; without headers append_row is called, else line 126 enters
\* _with_retry.
RowValues(t) ==
    /\ sheet_pc[t] = "in_row_values"
    /\ \E ok \in BOOLEAN :
         IF ~ok
         THEN /\ UNCHANGED retry
              /\ Return(t, "False")
         ELSE IF worksheet.headers
         THEN /\ retry' = [retry EXCEPT ![t] = RetryEntered("append_rows")]
              /\ Goto(t, "in_func")
         ELSE /\ UNCHANGED retry
              /\ Goto(t, "in_append_row")
    /\ UNCHANGED <<sheet_self, sheet_records, sheet_locals, _client, _sheet_cache,
                   authorize_calls, worksheet, sheets_env, extractVars, trainVars>>

\* _ensure_headers line 164: append_row writes the headers, or raises.
AppendRow(t) ==
    /\ sheet_pc[t] = "in_append_row"
    /\ \E ok \in BOOLEAN :
         IF ok
         THEN /\ worksheet' = [worksheet EXCEPT !.headers = TRUE]
              /\ retry' = [retry EXCEPT ![t] = RetryEntered("append_rows")]
              /\ Goto(t, "in_func")
         ELSE /\ UNCHANGED <<worksheet, retry>>
              /\ Return(t, "False")
    /\ UNCHANGED <<sheet_self, sheet_records, sheet_locals, _client, _sheet_cache,
                   authorize_calls, sheets_env, extractVars, trainVars>>

\* _with_retry lines 134-145: func is called. Its result is returned to the
\* caller (line 136); its exception is re-raised on the last attempt (line
\* 140) into the handler of line 128, and leads to the sleep otherwise.
Func(t) ==
    /\ sheet_pc[t] = "in_func"
    /\ LET r == retry[t]
           called == [r EXCEPT !.calls = r.calls + 1]
       IN \E ok \in BOOLEAN :
            IF ok
            THEN /\ retry' = [retry EXCEPT ![t] =
                       [called EXCEPT !.status = "returned",
                                      !.outcome = <<"result", called.calls>>]]
                 /\ IF r.func = "update"
                    THEN /\ sheet_locals' = [sheet_locals EXCEPT ![t].i = @ + 1]
                         /\ UNCHANGED worksheet
                         /\ Goto(t, "loop")
                    ELSE /\ worksheet' = [worksheet EXCEPT !.rows =
                                @ \cup Range(sheet_locals[t].new_rows)]
                         /\ UNCHANGED sheet_locals
                         /\ Return(t, "True")
            ELSE IF r.attempt = LastAttempt
            THEN /\ retry' = [retry EXCEPT ![t] =
                       [called EXCEPT !.status = "raised",
                                      !.outcome = <<"exception", called.calls>>]]
                 /\ UNCHANGED <<sheet_locals, worksheet>>
                 /\ Return(t, "False")
            ELSE /\ retry' = [retry EXCEPT ![t] = called]
                 /\ UNCHANGED <<sheet_locals, worksheet>>
                 /\ Goto(t, "sleeping")
    /\ UNCHANGED <<sheet_self, sheet_records, _client, _sheet_cache,
                   authorize_calls, sheets_env, extractVars, trainVars>>

\* _with_retry lines 146-147 and the next turn of the loop of line 134.
Sleep(t) ==
    /\ sheet_pc[t] = "sleeping"
    /\ retry[t].attempt + 1 < MaxAttempts
    /\ retry' = [retry EXCEPT ![t] =
           [@ EXCEPT !.slept = Append(@, retry[t].delay),
                     !.delay = NextDelay(retry[t].delay),
                     !.attempt = @ + 1]]
    /\ Goto(t, "in_func")
    /\ UNCHANGED <<sheet_self, sheet_records, sheet_locals, _client, _sheet_cache,
                   authorize_calls, worksheet, sheets_env, extractVars, trainVars>>

\* The pipeline state of a process that made no process_pdf call.
ExtractIdle ==
    /\ pc = "INIT"
    /\ path_exists = FALSE
    /\ force_ocr = FALSE
    /\ ocr_threshold = DefaultOcrThreshold
    /\ doc = <<>>
    /\ known_entities = <<>>
    /\ pages = <<>>
    /\ ocr_used = FALSE
    /\ exc = ""
    /\ invoked = <<>>
    /\ outcome = [t \in Tiers |-> "not_run"]
    /\ page_count = [t \in Tiers |-> <<>>]
    /\ direct_read = <<>>
    /\ pages_origin = "none"
    /\ candidates = <<>>
    /\ parse_result = <<>>
    /\ override_vendor_code = <<>>
    /\ record = <<>>

SheetsInit ==
    /\ ExtractIdle
    /\ TrainIdle
    /\ sheet_pc = [t \in SheetThreads |-> "idle"]
    /\ sheet_self \in [SheetThreads -> Instances]
    /\ sheet_records \in [SheetThreads -> RecordLists]
    /\ sheet_locals = [t \in SheetThreads |-> NoLocals]
    /\ retry = [t \in SheetThreads |-> NoRetry]
    /\ sheet_result = [t \in SheetThreads |-> <<>>]
    /\ _lock = <<>>
    /\ _client = [o \in Instances |-> 0]
    /\ _sheet_cache = [o \in Instances |-> FALSE]
    /\ authorize_calls = 0
    /\ worksheet \in {[rows |-> {}, headers |-> FALSE], [rows |-> {"u1"}, headers |-> TRUE]}
    /\ sheets_env \in [dependencies : BOOLEAN, credentials : BOOLEAN]

SheetsNext ==
    \E t \in SheetThreads :
        \/ Authenticate(t) \/ Authorize(t) \/ StoreClient(t) \/ ReturnClient(t)
        \/ EnsureSheet(t) \/ Open(t) \/ Create(t) \/ Acquire(t) \/ Worksheet(t) \/ AddWorksheet(t) \/ GetAllRecords(t) \/ Loop(t)
        \/ UpdateGetAllRecords(t) \/ UpdateRowValues(t) \/ RowValues(t) \/ AppendRow(t)
        \/ Func(t) \/ Sleep(t)

SheetsSpec == SheetsInit /\ [][SheetsNext]_vars

\* A thread inside _with_retry goes on: func returns or raises, and
\* time.sleep returns.
SheetsFairSpec ==
    SheetsSpec /\ \A t \in SheetThreads : WF_vars(Func(t) \/ Sleep(t))


\* ------------------------------------------------------------------------
\* TrainingEngine (src/training/training_engine.py): caller threads in
\* record_feedback and the training threads they start
\* ------------------------------------------------------------------------

\* A Thread object of threading.py as line 60 makes it: the Event _started,
\* its entry in threading._limbo, _tstate_lock (None, or the lock of the
\* thread state of the OS thread of that number) and _is_stopped.
ThreadObject == [_started |-> FALSE, _limbo |-> FALSE, _tstate_lock |-> 0, _is_stopped |-> FALSE]

\* An OS thread that _start_new_thread made to run Thread._bootstrap of a
\* Thread object, with the lock of its thread state (locked: whether anyone
\* holds it) and the lock it read at threading.py line 1021.  Its positions:
\* "bootstrap" (before threading.py line 1020), "read_tstate_lock" and
\* "acquire" (line 1021), "set_started" (line 1034), "started" (_started
\* set), "running" (in run(), before line 67), "training" (the feedback read
\* at line 67), "exiting" (the run logged), "dying" (an exception left
\* _bootstrap_inner), "finished" (the thread is gone).
OsThread(thread) ==
    [thread |-> thread, state |-> "bootstrap", count |-> 0, locked |-> FALSE, lock |-> 0]

\* lock.locked() of the lock of the thread state of OS thread l.  A lock has
\* no owner: any thread may release it.
locked(l) == runs[l].locked

\* A row of the training log: the feedback count and the status.
LogRow(feedback_count, status) == [feedback_count |-> feedback_count, status |-> status]

\* The call on the engine returns (e = NoError) or exception e leaves it;
\* its locals are gone.
Leave(c, e) ==
    /\ train_pc' = [train_pc EXCEPT ![c] = "idle"]
    /\ error' = [error EXCEPT ![c] = e]
    /\ thread_ref' = [thread_ref EXCEPT ![c] = 0]
    /\ in_method' = [in_method EXCEPT ![c] = ""]
    /\ waiting' = [waiting EXCEPT ![c] = ""]
    /\ lock_ref' = [lock_ref EXCEPT ![c] = 0]
    /\ stop_lock' = [stop_lock EXCEPT ![c] = 0]

\* record_feedback lines 44-53: the record is appended to the feedback file;
\* with retrain the call goes on into _schedule_retrain.
RecordFeedback(c) ==
    /\ process = "running"
    /\ train_pc[c] = "idle"
    /\ calls_made < MaxCalls
    /\ \E retrain \in BOOLEAN :
         /\ feedback_file' = Append(feedback_file, retrain)
         /\ train_pc' = [train_pc EXCEPT ![c] = IF retrain THEN "schedule" ELSE "idle"]
         /\ in_method' = [in_method EXCEPT ![c] = IF retrain THEN "_schedule_retrain" ELSE ""]
    /\ calls_made' = calls_made + 1
    /\ error' = [error EXCEPT ![c] = NoError]
    /\ UNCHANGED <<_training_thread, _stop_event, thread_ref, waiting, lock_ref, stop_lock,
                   threads, runs, training_log, process, extractVars, sheetVars>>

\* _schedule_retrain line 56, the left operand: self._training_thread is
\* read; None ends the test.
ScheduleRetrain(c) ==
    /\ process = "running"
    /\ train_pc[c] = "schedule"
    /\ \/ /\ _training_thread = 0
          /\ train_pc' = [train_pc EXCEPT ![c] = "create"]
          /\ UNCHANGED <<calls_made, feedback_file, _training_thread, _stop_event,
                        thread_ref, in_method, waiting, lock_ref, stop_lock, error,
                        threads, runs, training_log, process, extractVars, sheetVars>>
       \/ /\ _training_thread # 0
          /\ train_pc' = [train_pc EXCEPT ![c] = "test_thread"]
          /\ UNCHANGED <<calls_made, feedback_file, _training_thread, _stop_event,
                        thread_ref, in_method, waiting, lock_ref, stop_lock, error,
                        threads, runs, training_log, process, extractVars, sheetVars>>

\* stop() lines 106-107: the stop event is set.
StopEvent(c) ==
    /\ process = "running"
    /\ train_pc[c] = "idle"
    /\ calls_made < MaxCalls
    /\ train_pc' = [train_pc EXCEPT ![c] = "stop_test"]
    /\ calls_made' = calls_made + 1
    /\ _stop_event' = TRUE
    /\ in_method' = [in_method EXCEPT ![c] = "stop"]
    /\ error' = [error EXCEPT ![c] = NoError]
    /\ UNCHANGED <<feedback_file, _training_thread, thread_ref, waiting, lock_ref,
                  stop_lock, threads, runs, training_log, process, extractVars,
                  sheetVars>>

\* stop() line 108, the left operand: self._training_thread is read; None
\* ends the test and stop() returns.
StopTest(c) ==
    /\ process = "running"
    /\ train_pc[c] = "stop_test"
    /\ \/ /\ _training_thread = 0
          /\ Leave(c, NoError)
          /\ UNCHANGED <<calls_made, feedback_file, _training_thread, _stop_event,
                        threads, runs, training_log, process, extractVars, sheetVars>>
       \/ /\ _training_thread # 0
          /\ train_pc' = [train_pc EXCEPT ![c] = "test_thread"]
          /\ UNCHANGED <<calls_made, feedback_file, _training_thread, _stop_event,
                        thread_ref, in_method, waiting, lock_ref, stop_lock, error,
                        threads, runs, training_log, process, extractVars, sheetVars>>

\* Lines 56 and 108, the right operand: self._training_thread is read again
\* and is_alive() is called on the Thread that was read.
TestThread(c) ==
    /\ process = "running"
    /\ train_pc[c] = "test_thread"
    /\ train_pc' = [train_pc EXCEPT ![c] = "is_stopped"]
    /\ thread_ref' = [thread_ref EXCEPT ![c] = _training_thread]
    /\ waiting' = [waiting EXCEPT ![c] = "is_alive"]
    /\ UNCHANGED <<calls_made, feedback_file, _training_thread, _stop_event,
                  in_method, lock_ref, stop_lock, error, threads, runs,
                  training_log, process, extractVars, sheetVars>>

\* is_alive(), threading.py line 1201, the left operand: a Thread marked
\* stopped is not alive.
IsStopped(c) ==
    /\ process = "running"
    /\ train_pc[c] = "is_stopped"
    /\ \/ /\ threads[thread_ref[c]]._is_stopped
          /\ in_method[c] = "_schedule_retrain"
          /\ train_pc' = [train_pc EXCEPT ![c] = "create"]
          /\ UNCHANGED <<calls_made, feedback_file, _training_thread, _stop_event,
                        thread_ref, in_method, waiting, lock_ref, stop_lock, error,
                        threads, runs, training_log, process, extractVars, sheetVars>>
       \/ /\ threads[thread_ref[c]]._is_stopped
          /\ in_method[c] = "stop"
          /\ Leave(c, NoError)
          /\ UNCHANGED <<calls_made, feedback_file, _training_thread, _stop_event,
                        threads, runs, training_log, process, extractVars, sheetVars>>
       \/ /\ ~threads[thread_ref[c]]._is_stopped
          /\ train_pc' = [train_pc EXCEPT ![c] = "is_started"]
          /\ UNCHANGED <<calls_made, feedback_file, _training_thread, _stop_event,
                        thread_ref, in_method, waiting, lock_ref, stop_lock, error,
                        threads, runs, training_log, process, extractVars, sheetVars>>

\* is_alive(), threading.py line 1201, the right operand: a Thread whose
\* _started is not set is not alive.
IsStarted(c) ==
    /\ process = "running"
    /\ train_pc[c] = "is_started"
    /\ \/ /\ ~threads[thread_ref[c]]._started
          /\ in_method[c] = "_schedule_retrain"
          /\ train_pc' = [train_pc EXCEPT ![c] = "create"]
          /\ UNCHANGED <<calls_made, feedback_file, _training_thread, _stop_event,
                        thread_ref, in_method, waiting, lock_ref, stop_lock, error,
                        threads, runs, training_log, process, extractVars, sheetVars>>
       \/ /\ ~threads[thread_ref[c]]._started
          /\ in_method[c] = "stop"
          /\ Leave(c, NoError)
          /\ UNCHANGED <<calls_made, feedback_file, _training_thread, _stop_event,
                        threads, runs, training_log, process, extractVars, sheetVars>>
       \/ /\ threads[thread_ref[c]]._started
          /\ train_pc' = [train_pc EXCEPT ![c] = "wait_for_tstate_lock"]
          /\ UNCHANGED <<calls_made, feedback_file, _training_thread, _stop_event,
                        thread_ref, in_method, waiting, lock_ref, stop_lock, error,
                        threads, runs, training_log, process, extractVars, sheetVars>>

\* _wait_for_tstate_lock(), threading.py lines 1132-1133: _tstate_lock is
\* read into the local lock.
WaitForTstateLock(c) ==
    /\ process = "running"
    /\ train_pc[c] = "wait_for_tstate_lock"
    /\ \/ /\ threads[thread_ref[c]]._tstate_lock = 0
          /\ train_pc' = [train_pc EXCEPT ![c] = "assert_stopped"]
          /\ UNCHANGED <<calls_made, feedback_file, _training_thread, _stop_event,
                        thread_ref, in_method, waiting, lock_ref, stop_lock, error,
                        threads, runs, training_log, process, extractVars, sheetVars>>
       \/ /\ threads[thread_ref[c]]._tstate_lock # 0
          /\ train_pc' = [train_pc EXCEPT ![c] = "acquire"]
          /\ lock_ref' = [lock_ref EXCEPT ![c] = threads[thread_ref[c]]._tstate_lock]
          /\ UNCHANGED <<calls_made, feedback_file, _training_thread, _stop_event,
                        thread_ref, in_method, waiting, stop_lock, error, threads, runs,
                        training_log, process, extractVars, sheetVars>>

\* _wait_for_tstate_lock(), threading.py lines 1135-1136: with no lock the
\* Thread must be marked stopped, and the method returns.
AssertStopped(c) ==
    /\ process = "running"
    /\ train_pc[c] = "assert_stopped"
    /\ \/ /\ threads[thread_ref[c]]._is_stopped
          /\ waiting[c] = "is_alive"
          /\ train_pc' = [train_pc EXCEPT ![c] = "return_alive"]
          /\ UNCHANGED <<calls_made, feedback_file, _training_thread, _stop_event,
                        thread_ref, in_method, waiting, lock_ref, stop_lock, error,
                        threads, runs, training_log, process, extractVars, sheetVars>>
       \/ /\ threads[thread_ref[c]]._is_stopped
          /\ waiting[c] = "join"
          /\ Leave(c, NoError)
          /\ UNCHANGED <<calls_made, feedback_file, _training_thread, _stop_event,
                        threads, runs, training_log, process, extractVars, sheetVars>>
       \/ /\ ~threads[thread_ref[c]]._is_stopped
          /\ Leave(c, "AssertionError")
          /\ UNCHANGED <<calls_made, feedback_file, _training_thread, _stop_event,
                        threads, runs, training_log, process, extractVars, sheetVars>>

\* _wait_for_tstate_lock(), threading.py line 1139: lock.acquire(False) of
\* is_alive() takes the lock when nobody holds it; lock.acquire(True, 5) of
\* join() takes it when it is free and gives up when the time is over.
AcquireLock(c) ==
    /\ process = "running"
    /\ train_pc[c] = "acquire"
    /\ \/ /\ ~locked(lock_ref[c])
          /\ train_pc' = [train_pc EXCEPT ![c] = "release"]
          /\ runs' = [runs EXCEPT ![lock_ref[c]].locked = TRUE]
          /\ UNCHANGED <<calls_made, feedback_file, _training_thread, _stop_event,
                        thread_ref, in_method, waiting, lock_ref, stop_lock, error,
                        threads, training_log, process, extractVars, sheetVars>>
       \/ /\ locked(lock_ref[c])
          /\ waiting[c] = "is_alive"
          /\ train_pc' = [train_pc EXCEPT ![c] = "return_alive"]
          /\ UNCHANGED <<calls_made, feedback_file, _training_thread, _stop_event,
                        thread_ref, in_method, waiting, lock_ref, stop_lock, error,
                        threads, runs, training_log, process, extractVars, sheetVars>>
       \/ /\ locked(lock_ref[c])
          /\ waiting[c] = "join"
          /\ Leave(c, NoError)
          /\ UNCHANGED <<calls_made, feedback_file, _training_thread, _stop_event,
                        threads, runs, training_log, process, extractVars, sheetVars>>

\* _wait_for_tstate_lock(), threading.py line 1140: lock.release(); a lock
\* that is not locked raises RuntimeError into the except clause.
ReleaseLock(c) ==
    /\ process = "running"
    /\ train_pc[c] = "release"
    /\ \/ /\ locked(lock_ref[c])
          /\ train_pc' = [train_pc EXCEPT ![c] = "_stop"]
          /\ runs' = [runs EXCEPT ![lock_ref[c]].locked = FALSE]
          /\ UNCHANGED <<calls_made, feedback_file, _training_thread, _stop_event,
                        thread_ref, in_method, waiting, lock_ref, stop_lock, error,
                        threads, training_log, process, extractVars, sheetVars>>
       \/ /\ ~locked(lock_ref[c])
          /\ train_pc' = [train_pc EXCEPT ![c] = "except"]
          /\ error' = [error EXCEPT ![c] = "RuntimeError"]
          /\ UNCHANGED <<calls_made, feedback_file, _training_thread, _stop_event,
                        thread_ref, in_method, waiting, lock_ref, stop_lock, threads,
                        runs, training_log, process, extractVars, sheetVars>>

\* _stop(), threading.py lines 1068-1069: _tstate_lock is read again.
StopRead(c) ==
    /\ process = "running"
    /\ train_pc[c] = "_stop"
    /\ \/ /\ threads[thread_ref[c]]._tstate_lock = 0
          /\ train_pc' = [train_pc EXCEPT ![c] = "stop_mark"]
          /\ UNCHANGED <<calls_made, feedback_file, _training_thread, _stop_event,
                        thread_ref, in_method, waiting, lock_ref, stop_lock, error,
                        threads, runs, training_log, process, extractVars, sheetVars>>
       \/ /\ threads[thread_ref[c]]._tstate_lock # 0
          /\ train_pc' = [train_pc EXCEPT ![c] = "stop_assert"]
          /\ stop_lock' = [stop_lock EXCEPT ![c] = threads[thread_ref[c]]._tstate_lock]
          /\ UNCHANGED <<calls_made, feedback_file, _training_thread, _stop_event,
                        thread_ref, in_method, waiting, lock_ref, error, threads, runs,
                        training_log, process, extractVars, sheetVars>>

\* _stop(), threading.py line 1070: assert not lock.locked().  The
\* AssertionError enters the except clause of line 1142, or leaves the call
\* when it is raised by the _stop() of that clause.
StopAssert(c) ==
    /\ process = "running"
    /\ train_pc[c] = "stop_assert"
    /\ \/ /\ ~locked(stop_lock[c])
          /\ train_pc' = [train_pc EXCEPT ![c] = "stop_mark"]
          /\ UNCHANGED <<calls_made, feedback_file, _training_thread, _stop_event,
                        thread_ref, in_method, waiting, lock_ref, stop_lock, error,
                        threads, runs, training_log, process, extractVars, sheetVars>>
       \/ /\ locked(stop_lock[c])
          /\ error[c] = NoError
          /\ train_pc' = [train_pc EXCEPT ![c] = "except"]
          /\ error' = [error EXCEPT ![c] = "AssertionError"]
          /\ UNCHANGED <<calls_made, feedback_file, _training_thread, _stop_event,
                        thread_ref, in_method, waiting, lock_ref, stop_lock, threads,
                        runs, training_log, process, extractVars, sheetVars>>
       \/ /\ locked(stop_lock[c])
          /\ error[c] # NoError
          /\ Leave(c, "AssertionError")
          /\ UNCHANGED <<calls_made, feedback_file, _training_thread, _stop_event,
                        threads, runs, training_log, process, extractVars, sheetVars>>

\* _stop(), threading.py line 1071: self._is_stopped = True.
StopMark(c) ==
    /\ process = "running"
    /\ train_pc[c] = "stop_mark"
    /\ train_pc' = [train_pc EXCEPT ![c] = "stop_clear"]
    /\ threads' = [threads EXCEPT ![thread_ref[c]]._is_stopped = TRUE]
    /\ UNCHANGED <<calls_made, feedback_file, _training_thread, _stop_event,
                  thread_ref, in_method, waiting, lock_ref, stop_lock, error, runs,
                  training_log, process, extractVars, sheetVars>>

\* _stop(), threading.py line 1072: self._tstate_lock = None; then
\* _wait_for_tstate_lock returns, or its except clause raises again (line
\* 1150).
StopClear(c) ==
    /\ process = "running"
    /\ train_pc[c] = "stop_clear"
    /\ \/ /\ error[c] = NoError
          /\ waiting[c] = "is_alive"
          /\ train_pc' = [train_pc EXCEPT ![c] = "return_alive"]
          /\ threads' = [threads EXCEPT ![thread_ref[c]]._tstate_lock = 0]
          /\ UNCHANGED <<calls_made, feedback_file, _training_thread, _stop_event,
                        thread_ref, in_method, waiting, lock_ref, stop_lock, error, runs,
                        training_log, process, extractVars, sheetVars>>
       \/ /\ error[c] = NoError
          /\ waiting[c] = "join"
          /\ Leave(c, NoError)
          /\ threads' = [threads EXCEPT ![thread_ref[c]]._tstate_lock = 0]
          /\ UNCHANGED <<calls_made, feedback_file, _training_thread, _stop_event, runs,
                        training_log, process, extractVars, sheetVars>>
       \/ /\ error[c] # NoError
          /\ Leave(c, error[c])
          /\ threads' = [threads EXCEPT ![thread_ref[c]]._tstate_lock = 0]
          /\ UNCHANGED <<calls_made, feedback_file, _training_thread, _stop_event, runs,
                        training_log, process, extractVars, sheetVars>>

\* _wait_for_tstate_lock(), threading.py lines 1142-1143 and 1150: the
\* except clause tests lock.locked(); with the lock free the exception is
\* raised again.
Except(c) ==
    /\ process = "running"
    /\ train_pc[c] = "except"
    /\ \/ /\ locked(lock_ref[c])
          /\ train_pc' = [train_pc EXCEPT ![c] = "except_release"]
          /\ UNCHANGED <<calls_made, feedback_file, _training_thread, _stop_event,
                        thread_ref, in_method, waiting, lock_ref, stop_lock, error,
                        threads, runs, training_log, process, extractVars, sheetVars>>
       \/ /\ ~locked(lock_ref[c])
          /\ Leave(c, error[c])
          /\ UNCHANGED <<calls_made, feedback_file, _training_thread, _stop_event,
                        threads, runs, training_log, process, extractVars, sheetVars>>

\* _wait_for_tstate_lock(), threading.py lines 1148-1149: the except clause
\* releases the lock, whoever holds it, and calls _stop().
ExceptRelease(c) ==
    /\ process = "running"
    /\ train_pc[c] = "except_release"
    /\ \/ /\ locked(lock_ref[c])
          /\ train_pc' = [train_pc EXCEPT ![c] = "_stop"]
          /\ runs' = [runs EXCEPT ![lock_ref[c]].locked = FALSE]
          /\ UNCHANGED <<calls_made, feedback_file, _training_thread, _stop_event,
                        thread_ref, in_method, waiting, lock_ref, stop_lock, error,
                        threads, training_log, process, extractVars, sheetVars>>
       \/ /\ ~locked(lock_ref[c])
          /\ Leave(c, "RuntimeError")
          /\ UNCHANGED <<calls_made, feedback_file, _training_thread, _stop_event,
                        threads, runs, training_log, process, extractVars, sheetVars>>

\* is_alive(), threading.py line 1204: return not self._is_stopped.  In
\* _schedule_retrain an alive thread ends the call (lines 57-58); in stop() it
\* is joined (line 109).
ReturnAlive(c) ==
    /\ process = "running"
    /\ train_pc[c] = "return_alive"
    /\ \/ /\ ~threads[thread_ref[c]]._is_stopped
          /\ in_method[c] = "_schedule_retrain"
          /\ Leave(c, NoError)
          /\ UNCHANGED <<calls_made, feedback_file, _training_thread, _stop_event,
                        threads, runs, training_log, process, extractVars, sheetVars>>
       \/ /\ ~threads[thread_ref[c]]._is_stopped
          /\ in_method[c] = "stop"
          /\ train_pc' = [train_pc EXCEPT ![c] = "join"]
          /\ UNCHANGED <<calls_made, feedback_file, _training_thread, _stop_event,
                        thread_ref, in_method, waiting, lock_ref, stop_lock, error,
                        threads, runs, training_log, process, extractVars, sheetVars>>
       \/ /\ threads[thread_ref[c]]._is_stopped
          /\ in_method[c] = "_schedule_retrain"
          /\ train_pc' = [train_pc EXCEPT ![c] = "create"]
          /\ UNCHANGED <<calls_made, feedback_file, _training_thread, _stop_event,
                        thread_ref, in_method, waiting, lock_ref, stop_lock, error,
                        threads, runs, training_log, process, extractVars, sheetVars>>
       \/ /\ threads[thread_ref[c]]._is_stopped
          /\ in_method[c] = "stop"
          /\ Leave(c, NoError)
          /\ UNCHANGED <<calls_made, feedback_file, _training_thread, _stop_event,
                        threads, runs, training_log, process, extractVars, sheetVars>>

\* stop() line 109: self._training_thread is read once more for join().
JoinThread(c) ==
    /\ process = "running"
    /\ train_pc[c] = "join"
    /\ train_pc' = [train_pc EXCEPT ![c] = "join_started"]
    /\ thread_ref' = [thread_ref EXCEPT ![c] = _training_thread]
    /\ waiting' = [waiting EXCEPT ![c] = "join"]
    /\ UNCHANGED <<calls_made, feedback_file, _training_thread, _stop_event,
                  in_method, lock_ref, stop_lock, error, threads, runs,
                  training_log, process, extractVars, sheetVars>>

\* join(timeout=5), threading.py lines 1113-1123: a Thread that is not
\* started raises RuntimeError; else _wait_for_tstate_lock(timeout=5).
JoinStarted(c) ==
    /\ process = "running"
    /\ train_pc[c] = "join_started"
    /\ \/ /\ ~threads[thread_ref[c]]._started
          /\ Leave(c, "RuntimeError")
          /\ UNCHANGED <<calls_made, feedback_file, _training_thread, _stop_event,
                        threads, runs, training_log, process, extractVars, sheetVars>>
       \/ /\ threads[thread_ref[c]]._started
          /\ train_pc' = [train_pc EXCEPT ![c] = "wait_for_tstate_lock"]
          /\ UNCHANGED <<calls_made, feedback_file, _training_thread, _stop_event,
                        thread_ref, in_method, waiting, lock_ref, stop_lock, error,
                        threads, runs, training_log, process, extractVars, sheetVars>>

\* _schedule_retrain lines 59-60, the right-hand side: the stop event is
\* cleared and a Thread is created.
CreateThread(c) ==
    /\ process = "running"
    /\ train_pc[c] = "create"
    /\ train_pc' = [train_pc EXCEPT ![c] = "store_thread"]
    /\ _stop_event' = FALSE
    /\ thread_ref' = [thread_ref EXCEPT ![c] = Len(threads) + 1]
    /\ threads' = Append(threads, ThreadObject)
    /\ UNCHANGED <<calls_made, feedback_file, _training_thread, in_method, waiting,
                  lock_ref, stop_lock, error, runs, training_log, process,
                  extractVars, sheetVars>>

\* _schedule_retrain line 60: self._training_thread is assigned.
StoreThread(c) ==
    /\ process = "running"
    /\ train_pc[c] = "store_thread"
    /\ train_pc' = [train_pc EXCEPT ![c] = "read_thread"]
    /\ _training_thread' = thread_ref[c]
    /\ UNCHANGED <<calls_made, feedback_file, _stop_event, thread_ref, in_method,
                  waiting, lock_ref, stop_lock, error, threads, runs, training_log,
                  process, extractVars, sheetVars>>

\* _schedule_retrain line 61: self._training_thread is read again.
ReadThread(c) ==
    /\ process = "running"
    /\ train_pc[c] = "read_thread"
    /\ train_pc' = [train_pc EXCEPT ![c] = "start"]
    /\ thread_ref' = [thread_ref EXCEPT ![c] = _training_thread]
    /\ UNCHANGED <<calls_made, feedback_file, _training_thread, _stop_event,
                  in_method, waiting, lock_ref, stop_lock, error, threads, runs,
                  training_log, process, extractVars, sheetVars>>

\* _schedule_retrain line 61, start() of the Thread that was read
\* (threading.py lines 958-959): a Thread whose _started is set raises
\* RuntimeError.
StartThread(c) ==
    /\ process = "running"
    /\ train_pc[c] = "start"
    /\ \/ /\ threads[thread_ref[c]]._started
          /\ Leave(c, "RuntimeError")
          /\ UNCHANGED <<calls_made, feedback_file, _training_thread, _stop_event,
                        threads, runs, training_log, process, extractVars, sheetVars>>
       \/ /\ ~threads[thread_ref[c]]._started
          /\ train_pc' = [train_pc EXCEPT ![c] = "limbo"]
          /\ UNCHANGED <<calls_made, feedback_file, _training_thread, _stop_event,
                        thread_ref, in_method, waiting, lock_ref, stop_lock, error,
                        threads, runs, training_log, process, extractVars, sheetVars>>

\* start(), threading.py lines 961-962: _limbo[self] = self.
LimboThread(c) ==
    /\ process = "running"
    /\ train_pc[c] = "limbo"
    /\ train_pc' = [train_pc EXCEPT ![c] = "launch"]
    /\ threads' = [threads EXCEPT ![thread_ref[c]]._limbo = TRUE]
    /\ UNCHANGED <<calls_made, feedback_file, _training_thread, _stop_event,
                  thread_ref, in_method, waiting, lock_ref, stop_lock, error, runs,
                  training_log, process, extractVars, sheetVars>>

\* start(), threading.py line 964: _start_new_thread(self._bootstrap, ()).
LaunchThread(c) ==
    /\ process = "running"
    /\ train_pc[c] = "launch"
    /\ train_pc' = [train_pc EXCEPT ![c] = "wait_started"]
    /\ runs' = Append(runs, OsThread(thread_ref[c]))
    /\ UNCHANGED <<calls_made, feedback_file, _training_thread, _stop_event,
                  thread_ref, in_method, waiting, lock_ref, stop_lock, error,
                  threads, training_log, process, extractVars, sheetVars>>

\* start(), threading.py line 969: self._started.wait(); then line 62 and
\* record_feedback returns.
WaitStarted(c) ==
    /\ process = "running"
    /\ train_pc[c] = "wait_started"
    /\ threads[thread_ref[c]]._started
    /\ Leave(c, NoError)
    /\ UNCHANGED <<calls_made, feedback_file, _training_thread, _stop_event,
                  threads, runs, training_log, process, extractVars, sheetVars>>

\* _set_tstate_lock(), threading.py line 1020, in the new thread: the lock of
\* the thread state is stored in _tstate_lock, not yet acquired.
SetTstateLock(r) ==
    /\ process = "running"
    /\ r \in DOMAIN runs
    /\ runs[r].state = "bootstrap"
    /\ threads' = [threads EXCEPT ![runs[r].thread]._tstate_lock = r]
    /\ runs' = [runs EXCEPT ![r].state = "read_tstate_lock"]
    /\ UNCHANGED <<train_pc, calls_made, feedback_file, _training_thread,
                  _stop_event, thread_ref, in_method, waiting, lock_ref, stop_lock,
                  error, training_log, process, extractVars, sheetVars>>

\* _set_tstate_lock(), threading.py line 1021, self._tstate_lock: the
\* attribute is read again; None has no acquire and the thread dies.
ReadTstateLock(r) ==
    /\ process = "running"
    /\ r \in DOMAIN runs
    /\ runs[r].state = "read_tstate_lock"
    /\ \/ /\ threads[runs[r].thread]._tstate_lock = 0
          /\ runs' = [runs EXCEPT ![r].state = "dying"]
          /\ UNCHANGED <<train_pc, calls_made, feedback_file, _training_thread,
                        _stop_event, thread_ref, in_method, waiting, lock_ref, stop_lock,
                        error, threads, training_log, process, extractVars, sheetVars>>
       \/ /\ threads[runs[r].thread]._tstate_lock # 0
          /\ runs' = [runs EXCEPT ![r].state = "acquire", ![r].lock = threads[runs[r].thread]._tstate_lock]
          /\ UNCHANGED <<train_pc, calls_made, feedback_file, _training_thread,
                        _stop_event, thread_ref, in_method, waiting, lock_ref, stop_lock,
                        error, threads, training_log, process, extractVars, sheetVars>>

\* _set_tstate_lock(), threading.py line 1021, acquire(): the thread waits
\* for the lock it read and takes it.
AcquireTstateLock(r) ==
    /\ process = "running"
    /\ r \in DOMAIN runs
    /\ runs[r].state = "acquire"
    /\ ~locked(runs[r].lock)
    /\ runs' = [runs EXCEPT ![r].state = "set_started", ![runs[r].lock].locked = TRUE]
    /\ UNCHANGED <<train_pc, calls_made, feedback_file, _training_thread,
                  _stop_event, thread_ref, in_method, waiting, lock_ref, stop_lock,
                  error, threads, training_log, process, extractVars, sheetVars>>

\* _bootstrap_inner, threading.py line 1034: self._started.set().
SetStarted(r) ==
    /\ process = "running"
    /\ r \in DOMAIN runs
    /\ runs[r].state = "set_started"
    /\ threads' = [threads EXCEPT ![runs[r].thread]._started = TRUE]
    /\ runs' = [runs EXCEPT ![r].state = "started"]
    /\ UNCHANGED <<train_pc, calls_made, feedback_file, _training_thread,
                  _stop_event, thread_ref, in_method, waiting, lock_ref, stop_lock,
                  error, training_log, process, extractVars, sheetVars>>

\* _bootstrap_inner, threading.py lines 1035-1045: del _limbo[self], then
\* run() calls _run_training; with no entry left the del raises KeyError and
\* the thread ends without calling run().
LeaveLimbo(r) ==
    /\ process = "running"
    /\ r \in DOMAIN runs
    /\ runs[r].state = "started"
    /\ \/ /\ threads[runs[r].thread]._limbo
          /\ threads' = [threads EXCEPT ![runs[r].thread]._limbo = FALSE]
          /\ runs' = [runs EXCEPT ![r].state = "running"]
          /\ UNCHANGED <<train_pc, calls_made, feedback_file, _training_thread,
                        _stop_event, thread_ref, in_method, waiting, lock_ref, stop_lock,
                        error, training_log, process, extractVars, sheetVars>>
       \/ /\ ~threads[runs[r].thread]._limbo
          /\ runs' = [runs EXCEPT ![r].state = "dying"]
          /\ UNCHANGED <<train_pc, calls_made, feedback_file, _training_thread,
                        _stop_event, thread_ref, in_method, waiting, lock_ref, stop_lock,
                        error, threads, training_log, process, extractVars, sheetVars>>

\* _run_training lines 65-67: the feedback file is read.
ReadFeedback(r) ==
    /\ process = "running"
    /\ r \in DOMAIN runs
    /\ runs[r].state = "running"
    /\ runs' = [runs EXCEPT ![r].state = "training", ![r].count = Len(feedback_file)]
    /\ UNCHANGED <<train_pc, calls_made, feedback_file, _training_thread,
                  _stop_event, thread_ref, in_method, waiting, lock_ref, stop_lock,
                  error, threads, training_log, process, extractVars, sheetVars>>

\* _run_training lines 68-85: an empty file is logged as skipped (line 70);
\* else the model directory and metadata are written and the run is logged
\* with the count read (line 81), or something raised and the run is logged
\* as failed (line 85).
LogTraining(r) ==
    /\ process = "running"
    /\ r \in DOMAIN runs
    /\ runs[r].state = "training"
    /\ \E ok \in BOOLEAN :
         training_log' = Append(training_log,
                                IF runs[r].count = 0 THEN LogRow(0, "skipped")
                                ELSE IF ok THEN LogRow(runs[r].count, "success")
                                ELSE LogRow(0, "failed"))
    /\ runs' = [runs EXCEPT ![r].state = "exiting"]
    /\ UNCHANGED <<train_pc, calls_made, feedback_file, _training_thread,
                  _stop_event, thread_ref, in_method, waiting, lock_ref, stop_lock,
                  error, threads, process, extractVars, sheetVars>>

\* _run_training returned, or an exception left _bootstrap: the OS thread
\* ends and the interpreter releases the lock of its thread state.
ExitThread(r) ==
    /\ process = "running"
    /\ r \in DOMAIN runs
    /\ runs[r].state \in {"exiting", "dying"}
    /\ runs' = [runs EXCEPT ![r].state = "finished", ![r].locked = FALSE]
    /\ UNCHANGED <<train_pc, calls_made, feedback_file, _training_thread,
                  _stop_event, thread_ref, in_method, waiting, lock_ref, stop_lock,
                  error, threads, training_log, process, extractVars, sheetVars>>

\* The process ends while no call on the engine is in progress.  The
\* training threads are daemon threads (line 60) and nothing joins them:
\* they end with the process wherever they are.
ProcessExit ==
    /\ process = "running"
    /\ \A c \in Callers : train_pc[c] = "idle"
    /\ process' = "exited"
    /\ UNCHANGED <<train_pc, calls_made, feedback_file, _training_thread,
                  _stop_event, thread_ref, in_method, waiting, lock_ref, stop_lock,
                  error, threads, runs, training_log, extractVars, sheetVars>>

TrainInit ==
    /\ ExtractIdle
    /\ SheetsIdle
    /\ TrainIdle

TrainNext ==
    \/ \E c \in Callers :
         \/ RecordFeedback(c) \/ ScheduleRetrain(c) \/ StopEvent(c) \/ StopTest(c)
         \/ TestThread(c) \/ IsStopped(c) \/ IsStarted(c) \/ WaitForTstateLock(c)
         \/ AssertStopped(c) \/ AcquireLock(c) \/ ReleaseLock(c)
         \/ StopRead(c) \/ StopAssert(c) \/ StopMark(c) \/ StopClear(c)
         \/ Except(c) \/ ExceptRelease(c) \/ ReturnAlive(c) \/ JoinThread(c) \/ JoinStarted(c)
         \/ CreateThread(c) \/ StoreThread(c) \/ ReadThread(c) \/ StartThread(c)
         \/ LimboThread(c) \/ LaunchThread(c) \/ WaitStarted(c)
    \/ \E r \in 1..MaxCalls :
         \/ SetTstateLock(r) \/ ReadTstateLock(r) \/ AcquireTstateLock(r) \/ SetStarted(r)
         \/ LeaveLimbo(r) \/ ReadFeedback(r) \/ LogTraining(r) \/ ExitThread(r)
    \/ ProcessExit

TrainSpec == TrainInit /\ [][TrainNext]_vars

\* While the process lives, a caller finishes the call it is in and the OS
\* threads of training runs go on; no further call on the engine has to
\* arrive and the process may end at any time between calls.
TrainFairSpec ==
    /\ TrainSpec
    /\ \A c \in Callers :
         WF_vars(\/ ScheduleRetrain(c) \/ StopTest(c)
                 \/ TestThread(c) \/ IsStopped(c) \/ IsStarted(c) \/ WaitForTstateLock(c)
                 \/ AssertStopped(c) \/ AcquireLock(c) \/ ReleaseLock(c)
                 \/ StopRead(c) \/ StopAssert(c) \/ StopMark(c) \/ StopClear(c)
                 \/ Except(c) \/ ExceptRelease(c) \/ ReturnAlive(c) \/ JoinThread(c)
                 \/ JoinStarted(c)
                 \/ CreateThread(c) \/ StoreThread(c) \/ ReadThread(c) \/ StartThread(c)
                 \/ LimboThread(c) \/ LaunchThread(c) \/ WaitStarted(c))
    /\ \A r \in 1..MaxCalls :
         WF_vars(\/ SetTstateLock(r) \/ ReadTstateLock(r) \/ AcquireTstateLock(r)
                 \/ SetStarted(r) \/ LeaveLimbo(r) \/ ReadFeedback(r) \/ LogTraining(r)
                 \/ ExitThread(r))


\* ------------------------------------------------------------------------
\* Properties
\* ------------------------------------------------------------------------

\* process_pdf returned an ExtractionResult.
Returned == pc \in {"DONE", "PARSED", "RECORDED", "PROCESS_RAISED"}

\* The run of process_pdf is over: it returned, or an exception left it.
Ended == Returned \/ pc = "RAISED"

\* The selector is past its OCR step (line 131).
PastOcrStep == pc = "GENERATE" \/ Returned

\* C1: a call on an existing path with force_ocr = true never invokes the
\* Direct or the Generic tier, never raises, and returns ocr_used = true
\* after invoking the OCR tier alone.
C1_ForcedOcr ==
    (force_ocr /\ path_exists) =>
        /\ "direct" \notin Range(invoked)
        /\ "generic" \notin Range(invoked)
        /\ pc # "RAISED"
        /\ Returned => (ocr_used /\ invoked = <<"ocr">>)

\* A forced run returned, on a document the Direct tier would have read as
\* non-empty and above the threshold.
C1_Witness ==
    /\ pc = "DONE"
    /\ force_ocr
    /\ ocr_used
    /\ Len(pages) > 0
    /\ ~BelowThreshold(DirectPageRecords(doc), ocr_threshold)

\* C2: when force_ocr = false and the Direct tier read a non-empty document
\* whose mean page confidence is at least ocr_threshold, the run ends by
\* returning ocr_used = false.
C2_HighQualityDirect ==
    (Ended /\ ~force_ocr /\ Len(direct_read) > 0
       /\ ~BelowThreshold(direct_read, ocr_threshold))
        => (Returned /\ ~ocr_used)

\* The Direct tier was invoked and yielded zero pages: its backend was
\* absent or failed, or it read a document that has no pages.
DirectYieldsZeroPages == "direct" \in Range(invoked) /\ Len(direct_read) = 0

\* C3: when force_ocr = false, the Direct tier yielded zero pages and the
\* Generic tier, if it was consulted, yielded zero pages too, the OCR tier
\* has been invoked and ocr_used is true once the selector is past its OCR
\* step, and the run does not end without passing it.
C3_EmptyTiersReachOcr ==
    (~force_ocr /\ DirectYieldsZeroPages
       /\ ("generic" \in Range(invoked) => page_count["generic"] = <<0>>))
        => /\ PastOcrStep => ("ocr" \in Range(invoked) /\ ocr_used)
           /\ Ended => Returned

\* C4: whenever the page sequence the selector holds after its OCR step came
\* from the OCR tier, ocr_used is true; no result has OCR pages with
\* ocr_used = false.
C4_OcrPagesImplyOcrUsed ==
    (PastOcrStep /\ pages_origin = "ocr") => ocr_used

\* A result whose pages the OCR tier produced, in a run that was not forced
\* and whose Direct tier did not set ocr_used.
C4_Witness ==
    /\ pc = "DONE"
    /\ ~force_ocr
    /\ ocr_threshold = 0
    /\ pages_origin = "ocr"
    /\ Len(pages) > 0
    /\ ocr_used

\* C5: on an existing path process_pdf returns a result whatever the
\* backends and faults; the only exception that reaches the caller is the
\* not-found error of a path that does not exist.
C5_OnlyNotFoundPropagates ==
    /\ pc = "RAISED" => (exc = "FileNotFoundError" /\ ~path_exists)
    /\ Returned => exc = ""

\* An exception a tier itself let out (its invocation did not return).
TierRaised == pc = "RAISED" /\ exc = "PdfReadError"

\* C6: every run on an existing path in which each tier invocation returned
\* ends in DONE, holding a page sequence and a boolean ocr_used.
C6_RunEndsInDone ==
    (Ended /\ path_exists /\ ~TierRaised)
        => /\ Returned
           /\ DOMAIN pages = 1..Len(pages)
           /\ ocr_used \in BOOLEAN

\* C7: every candidate's page_number is an index into the page sequence the
\* Generator was given.
C7_PageNumberInRange ==
    \A j \in DOMAIN candidates :
        /\ candidates[j].page_number \in Int
        /\ 0 <= candidates[j].page_number
        /\ candidates[j].page_number < Len(pages)

\* A regex candidate found on the second page, next to a vendor guess.
C7_Witness ==
    /\ pc = "DONE"
    /\ Len(pages) = 2
    /\ \E j \in DOMAIN candidates :
         candidates[j].source = "regex" /\ candidates[j].page_number = 1
    /\ \E j \in DOMAIN candidates : candidates[j].source = "header"

\* A confidence that is a number of hundredths in [0, 1].
InUnitInterval(confidence) == confidence \in 0..100

\* C8: every confidence of a FieldCandidate and of a ParsedField (vendor,
\* regex fields, recognizer entities) lies in [0, 1].
C8_ConfidenceInUnitInterval ==
    /\ \A j \in DOMAIN candidates : InUnitInterval(candidates[j].confidence)
    /\ \A r \in Range(parse_result) :
         /\ \A f \in Range(r.vendor) \cup Range(r.invoice_id)
                       \cup Range(r.invoice_date) \cup Range(r.total) :
              InUnitInterval(f.confidence)
         /\ \A e \in Range(r.additional_entities) :
              e.confidence.is_float /\ InUnitInterval(e.confidence.h)

\* The page of the scenario: its text read with confidence 0.9.
ScenarioPage(ps) ==
    /\ Len(ps) = 1
    /\ ps[1].text = ScenarioText
    /\ ps[1].confidence = 90

\* The value and source a parsed field must have.
FieldIs(field, value) ==
    /\ Len(field) = 1
    /\ field[1].value = value
    /\ field[1].source = "regex"

\* C10: the scenario page is extracted with ocr_used = false and parsed to
\* invoice_id INV-2024-001, invoice_date 03/14/2024 and total $1,250.00,
\* each from the regex source.
C10_ScenarioFields ==
    /\ (Ended /\ ~force_ocr /\ ScenarioPage(direct_read) /\ ocr_threshold <= 90)
         => (Returned /\ ~ocr_used)
    /\ \A r \in Range(parse_result) :
         (Len(pages) = 1 /\ pages[1].text = ScenarioText)
           => /\ FieldIs(r.invoice_id, "INV-2024-001")
              /\ FieldIs(r.invoice_date, "03/14/2024")
              /\ FieldIs(r.total, "$1,250.00")

\* Every tier invoked so far yielded zero pages, in a run not forced to OCR.
AllTiersEmpty ==
    /\ ~force_ocr
    /\ DirectYieldsZeroPages
    /\ \A t \in {"generic", "ocr"} : t \in Range(invoked) => page_count[t] = <<0>>

\* C11: when every tier yields zero pages (the OCR tier because its backend
\* is absent or failed), process_pdf returns pages = [], no candidates and
\* ocr_used = true without raising, and parse returns a ParseResult whose
\* vendor, invoice_id, invoice_date and total are None and whose line_items
\* is empty, whatever the known-entity table.
C11_EmptyDocument ==
    AllTiersEmpty =>
        /\ pc # "RAISED"
        /\ Returned => /\ "ocr" \in Range(invoked)
                       /\ pages = <<>>
                       /\ candidates = <<>>
                       /\ ocr_used
        /\ \A r \in Range(parse_result) :
             /\ r.vendor = <<>>
             /\ r.invoice_id = <<>>
             /\ r.invoice_date = <<>>
             /\ r.total = <<>>
             /\ r.line_items = <<>>

\* The full text InvoiceParser.parse works on.
FullText == join(<<"\n">>, [i \in DOMAIN pages |-> Chars(pages[i].text)])

\* needle occurs in hay, both sequences of characters.
OccursIn(needle, hay) ==
    \E k \in 0..(Len(hay) - Len(needle)) : SubSeq(hay, k + 1, k + Len(needle)) = needle

\* The known-entity records, by position, whose name occurs in the text
\* whatever the case.
MatchingVendors ==
    {i \in DOMAIN known_entities :
        /\ known_entities[i].name # ""
        /\ OccursIn(lower(Chars(known_entities[i].name)), lower(FullText))}

KnownEntitySteps(r) ==
    {j \in DOMAIN r.reasoning_steps : r.reasoning_steps[j].method = "known-entity"}

\* C12: the vendor of a ParseResult is the first known-entity record, in
\* mapping order, whose name is a case-insensitive substring of the text:
\* its name as value, source known_entity, its stored confidence unchanged,
\* and one known-entity reasoning entry; None when no record matches.
C12_FirstKnownVendorWins ==
    \A r \in Range(parse_result) :
        IF MatchingVendors = {}
        THEN r.vendor = <<>> /\ KnownEntitySteps(r) = {}
        ELSE LET first == known_entities[Least(MatchingVendors)]
             IN /\ Len(r.vendor) = 1
                /\ r.vendor[1].value = first.name
                /\ r.vendor[1].source = "known_entity"
                /\ Len(first.confidence) = 1 => r.vendor[1].confidence = first.confidence[1]
                /\ Cardinality(KnownEntitySteps(r)) = 1

\* A text in which two records match and the first, with a stored
\* confidence, was taken.
C12_Witness ==
    /\ pc = "PARSED"
    /\ Cardinality(MatchingVendors) = 2
    /\ parse_result[1].vendor[1].value = known_entities[1].name
    /\ parse_result[1].vendor[1].confidence = known_entities[1].confidence[1]

\* The non-blank lines of the text, trimmed.
TrimmedLines == StripNonBlank(splitlines(FullText))

CurrencySymbols == {"$", "€", "£"}
PriceChars == Digits \cup {",", "."}

\* q is a price: an optional currency symbol, an optional whitespace
\* character, then one or more digit or separator characters.
IsPrice(q) ==
    LET q1 == IF Len(q) > 0 /\ q[1] \in CurrencySymbols THEN Tail(q) ELSE q
        q2 == IF Len(q1) > 0 /\ q1[1] \in Whitespace THEN Tail(q1) ELSE q1
    IN Len(q2) > 0 /\ \A k \in DOMAIN q2 : q2[k] \in PriceChars

\* line is a description, whitespace, an integer quantity, whitespace and a
\* price up to its end.
IsLineItem(line) ==
    \E b \in 2..Len(line) :
        /\ line[b] \in Whitespace
        /\ \E c \in (b + 1)..Len(line) :
             /\ \A k \in (b + 1)..c : line[k] \in DecimalChars
             /\ \E d \in (c + 1)..(Len(line) - 1) :
                  /\ \A k \in (c + 1)..d : line[k] \in Whitespace
                  /\ IsPrice(SubSeq(line, d + 1, Len(line)))

\* item is line taken apart: description, whitespace, quantity, whitespace, price.
ItemOfLine(item, line) ==
    LET desc == Chars(item.description)
        qty == Chars(item.quantity)
        price == Chars(item.price)
    IN /\ Len(desc) > 0 /\ Len(qty) > 0
       /\ \A k \in DOMAIN qty : qty[k] \in DecimalChars
       /\ IsPrice(price)
       /\ \E w1 \in 1..Len(line), w2 \in 1..Len(line) :
            /\ Len(desc) + w1 + Len(qty) + w2 + Len(price) = Len(line)
            /\ line = desc \o SubSeq(line, Len(desc) + 1, Len(desc) + w1) \o qty
                        \o SubSeq(line, Len(line) - Len(price) - w2 + 1,
                                  Len(line) - Len(price)) \o price
            /\ \A k \in (Len(desc) + 1)..(Len(desc) + w1) : line[k] \in Whitespace
            /\ \A k \in (Len(line) - Len(price) - w2 + 1)..(Len(line) - Len(price)) :
                 line[k] \in Whitespace

\* C13: line_items holds one record per trimmed non-blank line of the form
\* description, whitespace, integer quantity, whitespace, price, in line
\* order and nothing else; a form spread over two lines gives no record;
\* "Widgets 10 $4.50" gives Widgets / 10 / $4.50 and "Widgets ten dollars"
\* gives none.
C13_LineItemsPerLine ==
    \A r \in Range(parse_result) :
        LET matching == SelectSeq(TrimmedLines, IsLineItem)
        IN /\ Len(r.line_items) = Len(matching)
           /\ \A j \in DOMAIN matching :
                /\ ItemOfLine(r.line_items[j], matching[j])
                /\ matching[j] = Chars("Widgets 10 $4.50")
                     => r.line_items[j] = [description |-> "Widgets", quantity |-> "10",
                                           price |-> "$4.50"]
           /\ \A item \in Range(r.line_items) : item.description # "Widgets ten dollars"

\* Both example lines were read, next to a quantity and a price that sit on
\* two lines, and the one line item was found twice in a two-page text.
C13_Witness ==
    /\ pc = "PARSED"
    /\ \E j \in DOMAIN TrimmedLines : TrimmedLines[j] = Chars("Widgets ten dollars")
    /\ \E j \in DOMAIN TrimmedLines :
         /\ j < Len(TrimmedLines)
         /\ TrimmedLines[j] = Chars("TOTAL 5")
         /\ TrimmedLines[j + 1] = Chars("7.25")
    /\ Len(parse_result[1].line_items) = 2
    /\ parse_result[1].line_items[1].price = "$4.50"

\* str has no leading and no trailing whitespace.
IsTrimmed(str) ==
    LET cs == Chars(str)
    IN Len(cs) = 0 \/ (cs[1] \notin Whitespace /\ cs[Len(cs)] \notin Whitespace)

\* C14: the value of every ParsedField of a ParseResult (vendor, invoice_id,
\* invoice_date, total and each additional entity) is a trimmed string.
C14_ValuesTrimmed ==
    \A r \in Range(parse_result) :
        \A f \in Range(r.vendor) \cup Range(r.invoice_id) \cup Range(r.invoice_date)
                   \cup Range(r.total) \cup Range(r.additional_entities) :
            IsTrimmed(f.value)

\* What _build_record is to make of an Optional[ParsedField].
TrimmedValueOrEmpty(field) ==
    IF Len(field) = 1 THEN Str(strip(Chars(field[1].value))) ELSE ""

\* InvoiceProcessor.process is over: it returned its triple, or raised.
ProcessEnded == pc \in {"RECORDED", "PROCESS_RAISED"}

\* C15: once extraction and parsing have completed, InvoiceProcessor.process
\* returns (record, extraction, parse_result) without raising; the record's
\* invoice_date, invoice_number and amount are the trimmed values of the
\* ParseResult's invoice_date, invoice_id and total ("" for None) and
\* vendor_code is the override when one is given.
C15_ProcessReturnsRecord ==
    ProcessEnded =>
        /\ pc = "RECORDED"
        /\ Len(record) = 1
        /\ record[1].invoice_date = TrimmedValueOrEmpty(parse_result[1].invoice_date)
        /\ record[1].invoice_number = TrimmedValueOrEmpty(parse_result[1].invoice_id)
        /\ record[1].amount = TrimmedValueOrEmpty(parse_result[1].total)
        /\ Truthy(override_vendor_code) => record[1].vendor_code = override_vendor_code[1]

\* C16: in every run each tier is invoked at most once, the Direct tier
\* before any other, the Generic tier only after the Direct tier was
\* attempted, and no tier after the OCR tier.
C16_TierOrder ==
    /\ Cardinality(Range(invoked)) = Len(invoked)
    /\ \A j \in DOMAIN invoked :
         /\ invoked[j] = "direct" => j = 1
         /\ invoked[j] = "generic" => (j = 2 /\ invoked[1] = "direct")
         /\ invoked[j] = "ocr" => j = Len(invoked)

\* A run that went through all three tiers and ended with the OCR tier's pages.
C16_Witness ==
    /\ pc = "DONE"
    /\ invoked = <<"direct", "generic", "ocr">>
    /\ pages_origin = "ocr"
    /\ Len(pages) > 0

\* The selector has just finished its Direct step (lines 110-122) and holds
\* the Direct tier's pages.
AfterDirectStep == pc = "GENERIC" /\ ~force_ocr /\ invoked = <<"direct">>

\* C17: after the Direct step of a run with force_ocr = false, whatever the
\* threshold, the run is flagged for OCR exactly when the Direct tier
\* produced zero pages or the mean of its page confidences is below
\* ocr_threshold.
C17_FlagRule ==
    AfterDirectStep =>
        (ocr_used <=> (Len(pages) = 0
                         \/ Sum([i \in DOMAIN pages |-> pages[i].confidence])
                              < ocr_threshold * Len(pages)))

\* C18: when the run is not flagged for OCR and the Direct tier produced at
\* least one page, the run returns the Direct tier's page sequence as the
\* final pages and invokes neither the Generic nor the OCR tier.
C18_DirectPagesAreFinal ==
    (Ended /\ ~force_ocr /\ Len(direct_read) > 0
       /\ ~BelowThreshold(direct_read, ocr_threshold))
        => /\ Returned
           /\ pages = direct_read
           /\ invoked = <<"direct">>

\* What the OCR tier returned in this run: its reading of the document, or
\* [] when its backend is absent or it failed.
OcrOutput ==
    IF outcome["ocr"] = "ok"
    THEN [i \in DOMAIN doc |->
            [index |-> i - 1, text |-> doc[i].text, words |-> OcrWords(doc[i].words),
             confidence |-> _estimate_page_confidence_from_words(OcrWords(doc[i].words))]]
    ELSE <<>>

\* C19: once the OCR tier has been invoked, the pages the selector holds and
\* returns are exactly the OCR tier's output, empty when its backend is
\* absent or failed, and ocr_used is true.
C19_OcrOutputIsFinal ==
    (PastOcrStep /\ "ocr" \in Range(invoked)) =>
        /\ pages = OcrOutput
        /\ pages_origin = "ocr"
        /\ ocr_used

\* A flagged run on a document that has pages, whose OCR tier failed: the
\* result is empty with ocr_used = true.
C19_Witness ==
    /\ pc = "DONE"
    /\ invoked = <<"direct", "ocr">>
    /\ outcome["ocr"] = "failed"
    /\ Len(doc) = 2
    /\ pages = <<>>
    /\ ocr_used

\* C20: a tier whose backend is available and reads the n pages of the
\* document without fault returns n records, record i with index i counted
\* from 0; a tier whose backend is unavailable or faults on open returns the
\* empty sequence.
C20_TiersReturnPageSequences ==
    /\ \A t \in Range(invoked) :
         ~TierRaised =>
            /\ outcome[t] = "ok" => page_count[t] = <<Len(doc)>>
            /\ outcome[t] = "failed" => page_count[t] = <<0>>
    /\ \A i \in DOMAIN pages : pages[i].index = i - 1
    /\ \A i \in DOMAIN direct_read : direct_read[i].index = i - 1

\* The page texts joined with one newline between pages.
TextStream(ps) == join(<<"\n">>, [i \in DOMAIN ps |-> Chars(ps[i].text)])

\* The stream offset at which page k (counted from 1) starts.
PageStart(ps, k) == Len(TextStream(SubSeq(ps, 1, k - 1))) + (IF k > 1 THEN 1 ELSE 0)

\* The stream offset at which each page starts.
PageStarts(ps) == [k \in DOMAIN ps |-> PageStart(ps, k)]

\* Offset s lies in the own text of page k, not on a separator.
InOwnText(ps, starts, k, s) == starts[k] <= s /\ s < starts[k] + Len(ps[k].text)

\* The start offsets of the matches, in the order of the regex candidates.
MatchStarts(ps) ==
    Flatten([j \in DOMAIN Patterns |->
               LET ms == re_finditer(Patterns[j].pattern, TextStream(ps))
               IN [n \in DOMAIN ms |-> ms[n].start]])

\* C21: over the page texts joined by single newlines, every offset inside
\* page k's own text is attributed to page k, so page 0 is never the answer
\* for an offset in a later page; every regex candidate carries the number
\* of the page in whose text its match starts.
C21_MatchAttributedToOwningPage ==
    pc = "DONE" =>
        LET starts == PageStarts(pages)
            matches == MatchStarts(pages)
        IN /\ \A k \in DOMAIN pages :
                \A s \in starts[k]..(starts[k] + Len(pages[k].text) - 1) :
                   /\ InOwnText(pages, starts, k, s)
                   /\ _locate_page_for_match(s, pages) = k - 1
           /\ \A j \in DOMAIN matches :
                /\ candidates[j].source = "regex"
                /\ \E k \in DOMAIN pages :
                     /\ InOwnText(pages, starts, k, matches[j])
                     /\ candidates[j].page_number = k - 1

\* Two pages that both hold text, with a match on each of them.
C21_Witness ==
    /\ pc = "DONE"
    /\ Len(pages) = 2
    /\ pages[1].text # ""
    /\ \E j \in DOMAIN candidates :
         candidates[j].source = "regex" /\ candidates[j].page_number = 0
    /\ \E j \in DOMAIN candidates :
         /\ candidates[j].source = "regex" /\ candidates[j].page_number = 1
         /\ InOwnText(pages, PageStarts(pages), 2, MatchStarts(pages)[j])

\* The header candidates among the candidates.
VendorGuesses == SelectSeq(candidates, LAMBDA c : c.source = "header")

\* C22: when the first page's text has a non-blank line, however many blank
\* lines precede it, exactly one vendor candidate is emitted: its value is
\* the first non-blank line trimmed, its source is header, its confidence
\* is 0.6 for two or more words and 0.4 otherwise; no document yields more
\* than one vendor guess.
C22_VendorGuessFirstNonBlankLine ==
    pc = "DONE" =>
        /\ Len(VendorGuesses) <= 1
        /\ Len(pages) > 0 =>
             LET non_blank == StripNonBlank(splitlines(Chars(pages[1].text)))
             IN Len(non_blank) > 0 =>
                  /\ Len(VendorGuesses) = 1
                  /\ VendorGuesses[1].field_name = "vendor"
                  /\ VendorGuesses[1].value = Str(non_blank[1])
                  /\ VendorGuesses[1].confidence
                       = (IF Len(split(non_blank[1])) >= 2 THEN 60 ELSE 40)

\* The Fusion step that writes trail entries of a method.
StepRank(method) ==
    CASE method = "known-entity" -> 1
      [] method = "regex" -> 2
      [] method = "spacy-ner" -> 3
      [] method = "regex-table" -> 4
      [] OTHER -> 0

\* The trail has an entry for the field resolved under `key`.
HasTrailEntry(r, key) ==
    \E n \in DOMAIN r.reasoning_steps :
        r.reasoning_steps[n].field \in {key, r[key][1].name}

\* C23: in every ParseResult the reasoning trail is in step order
\* (known-entity, regex, recognizer, line-item entries), and every non-null
\* vendor, invoice_id, invoice_date and total has a trail entry.
C23_TrailCoversResolvedFields ==
    \A r \in Range(parse_result) :
        /\ \A n \in DOMAIN r.reasoning_steps : StepRank(r.reasoning_steps[n].method) > 0
        /\ \A m, n \in DOMAIN r.reasoning_steps :
             m < n => StepRank(r.reasoning_steps[m].method)
                        <= StepRank(r.reasoning_steps[n].method)
        /\ \A key \in {"vendor", "invoice_id", "invoice_date", "total"} :
             Len(r[key]) = 1 => HasTrailEntry(r, key)

\* C25: the Generic tier is invoked only in runs with ocr_threshold <= 0
\* whose Direct tier returned zero pages; with a positive threshold the
\* empty Direct result sets ocr_used first and the Generic tier never runs.
C25_GenericOnlyAtNonPositiveThreshold ==
    /\ "generic" \in Range(invoked) =>
         /\ ocr_threshold <= 0
         /\ ~force_ocr
         /\ page_count["direct"] = <<0>>
    /\ ocr_threshold > 0 => outcome["generic"] = "not_run"

\* A run with threshold 0 whose Direct tier returned zero pages and whose
\* Generic tier then read the document.
C25_Witness ==
    /\ pc = "DONE"
    /\ ocr_threshold = 0
    /\ invoked = <<"direct", "generic">>
    /\ page_count["direct"] = <<0>>
    /\ Len(pages) > 0

\* The thread is inside a call on the client, the spreadsheet or the
\* worksheet.
InClientCall(t) ==
    sheet_pc[t] \in {"in_authorize", "in_open", "in_create", "in_worksheet",
                     "in_add_worksheet", "in_get_all_records",
                     "in_update_get_all_records", "in_update_row_values",
                     "in_row_values", "in_append_row", "in_func"}

\* C24: every call on the client, spreadsheet or worksheet is made by a
\* thread that holds SheetSync._lock, so no two threads are inside such
\* calls at once, and the client is constructed at most once.
C24_ClientAccessSerialized ==
    /\ \A t \in SheetThreads : InClientCall(t) => _lock = <<t>>
    /\ \A t, u \in SheetThreads : (InClientCall(t) /\ InClientCall(u)) => t = u
    /\ authorize_calls <= 1

RECURSIVE Pow2(_)
Pow2(n) == IF n = 0 THEN 1 ELSE 2 * Pow2(n - 1)

\* The thread's _with_retry call is in its loop / is over.
RetryRunning(t) == retry[t].status = "running"
RetryOver(t) == retry[t].status \in {"returned", "raised"}

\* What holds of a _with_retry call at every point: at most 5 calls of
\* func; sleeps of 1, 2, 4, 8 seconds, one after each failed attempt but the
\* fifth; the result returned is that of the first successful call, after
\* which no call is made; the exception raised is that of the fifth call.
RetryHistory(t) ==
    LET r == retry[t]
    IN /\ r.calls <= MaxAttempts
       /\ Len(r.slept) <= MaxAttempts - 1
       /\ \A k \in DOMAIN r.slept : r.slept[k] = Pow2(k - 1)
       /\ sheet_pc[t] = "in_func" => (RetryRunning(t) /\ Len(r.slept) = r.calls)
       /\ sheet_pc[t] = "sleeping" =>
            (RetryRunning(t) /\ r.calls < MaxAttempts /\ Len(r.slept) = r.calls - 1)
       /\ r.status = "returned" =>
            /\ r.outcome = <<"result", r.calls>>
            /\ Len(r.slept) = r.calls - 1
            /\ sheet_pc[t] \notin {"in_func", "sleeping"}
       /\ r.status = "raised" =>
            /\ r.outcome = <<"exception", MaxAttempts>>
            /\ r.calls = MaxAttempts
            /\ r.slept = <<1, 2, 4, 8>>
            /\ sheet_pc[t] = "returned"

\* C26: _with_retry calls the operation at most 5 times, returns the first
\* success without a further attempt, sleeps 1, 2, 4, 8 seconds after the
\* failed attempts 1 to 4, re-raises the fifth failure without sleeping,
\* and so always terminates.
C26_RetryBoundedBackoff ==
    /\ [](\A t \in SheetThreads : RetryHistory(t))
    /\ \A t \in SheetThreads : RetryRunning(t) ~> RetryOver(t)

\* One call that failed five times and one that succeeded on its third
\* attempt.
C26_Witness ==
    \E t, u \in SheetThreads :
        /\ retry[t].status = "raised"
        /\ retry[t].slept = <<1, 2, 4, 8>>
        /\ retry[u].status = "returned"
        /\ retry[u].calls = 3
        /\ retry[u].slept = <<1, 2>>

\* The training runs in progress: the OS threads inside run().
AliveThreads == {r \in DOMAIN runs : runs[r].state \in {"running", "training", "exiting"}}

\* C27: whatever the interleaving of record_feedback(retrain=True) calls
\* and training threads, at most one training run is in progress at a time.
C27_AtMostOneTrainingRun == Cardinality(AliveThreads) <= 1

\* Line n of the feedback file was written by record_feedback(retrain=True).
Written(n) == n <= Len(feedback_file) /\ feedback_file[n]

\* A completed training run logged a feedback count that includes line n.
Covered(n) ==
    \E k \in DOMAIN training_log :
        training_log[k].status = "success" /\ training_log[k].feedback_count >= n

\* The training threads did not run to completion: a run failed, or the
\* process ended.
RunFailed ==
    \/ \E k \in DOMAIN training_log : training_log[k].status = "failed"
    \/ process = "exited"

\* C28: every record written with retrain=True is eventually covered by a
\* training run that completes after reading it, when training threads run
\* to completion and no further feedback arrives.
C28_FeedbackEventuallyTrained ==
    \A n \in 1..MaxCalls : Written(n) ~> (Covered(n) \/ RunFailed)


====
